---- MODULE Spec2Model ----
(***************************************************************************)
(* A model of the XML data parser of libyang (src/src/parser_xml.c): the   *)
(* schema resolver, the value decoder, the tree builder and the top-level  *)
(* entry points, over a small fixed schema context.                        *)
(***************************************************************************)
EXTENDS Integers, Sequences, FiniteSets, TLC

(***************************************************************************)
(* Bounds of the model.                                                    *)
(***************************************************************************)
\* the number of XML elements one document may hold
MaxElems == 3
\* the number of member types of a union drawn for the value decoder
MaxUnion == 2
\* the number of attributes of an element drawn for the edit-attribute check
MaxAttrs == 3
\* the number of XML children of an anyxml element
MaxKids == 2
\* the children of the container of a printed tree
MaxSibs == 3
\* the children of the container of a tree with a leaf that cannot be printed
MaxLeaves == 2
\* the top-level statements of a module or of a submodule
MaxData == 2
\* the submodules a module includes
MaxInc == 1

(***************************************************************************)
(* Program constants.                                                      *)
(***************************************************************************)
NULL == 0

LY_TYPE_DER == 0
LY_TYPE_BOOL == 3
LY_TYPE_EMPTY == 5
LY_TYPE_ENUM == 6
LY_TYPE_IDENT == 7
LY_TYPE_INST == 8
LY_TYPE_LEAFREF == 9
LY_TYPE_STRING == 10
LY_TYPE_UNION == 11
LY_TYPE_INT8 == 12
LY_DATA_TYPE_MASK == 63
LY_TYPE_LEAFREF_UNRES == 64
LY_TYPE_INST_UNRES == 128

\* the namespace of the insert and value attributes
LY_NSYANG == "urn:ietf:params:xml:ns:yang:1"

EXIT_SUCCESS == "EXIT_SUCCESS"
EXIT_FAILURE == "EXIT_FAILURE"

\* the parser options, as a set of the flags that are set
LYD_OPT == {"STRICT", "DESTRUCT", "FILTER", "EDIT", "GET", "GETCONFIG"}

\* a value of the dictionary that stands for the null string
NoText == [pfx |-> "", loc |-> ""]
NoSchema == "NoSchema"
NoType == [base |-> LY_TYPE_DER, types |-> <<>>, target |-> NoSchema]

(***************************************************************************)
(* The schema context: two modules, their namespaces and their schema      *)
(* trees (struct lys_module, struct lys_node, struct lys_type).            *)
(***************************************************************************)
\* ctx->models.list, in the order the modules were loaded
Models == <<"m1", "m2">>

lys_module ==
  [m \in {"m1", "m2"} |->
     IF m = "m1" THEN [name |-> "m1", ns |-> "urn:m1", data |-> "cont", prefix |-> "z"]
                 ELSE [name |-> "m2", ns |-> "urn:m2", data |-> "l2", prefix |-> "y"]]

\* the built-in types of the leaves, and a union of two of them
TypeOf(base) == [base |-> base, types |-> <<>>, target |-> NoSchema]
LeafrefTo(target) == [base |-> LY_TYPE_LEAFREF, types |-> <<>>, target |-> target]
UnionOf(types) == [base |-> LY_TYPE_UNION, types |-> types, target |-> NoSchema]

SN(name, module, nodetype, userordered, child, next, type) ==
  [name |-> name, module |-> module, nodetype |-> nodetype,
   userordered |-> userordered, child |-> child, next |-> next, type |-> type]

SchemaIds ==
  {"cont", "lf", "ll", "ch", "cs", "cl", "grp", "gl", "ax", "baz", "ref", "iid",
   "lst", "k", "us", "ul", "tg", "tgl", "tch", "tcs", "tl", "op", "opin", "in_v", "opout", "out_v",
   "tid", "l2"}

lys_node ==
  [s \in SchemaIds |->
     CASE s = "cont"  -> SN("cont", "m1", "CONTAINER", FALSE, "lf", "tg", NoType)
       [] s = "lf"    -> SN("lf", "m1", "LEAF", FALSE, NoSchema, "ll",
                            UnionOf(<<TypeOf(LY_TYPE_IDENT), TypeOf(LY_TYPE_STRING)>>))
       [] s = "ll"    -> SN("ll", "m1", "LEAFLIST", TRUE, NoSchema, "ch", TypeOf(LY_TYPE_STRING))
       [] s = "ch"    -> SN("ch", "m1", "CHOICE", FALSE, "cs", "grp", NoType)
       [] s = "cs"    -> SN("cs", "m1", "CASE", FALSE, "cl", NoSchema, NoType)
       [] s = "cl"    -> SN("cl", "m1", "LEAF", FALSE, NoSchema, NoSchema, TypeOf(LY_TYPE_BOOL))
       [] s = "grp"   -> SN("grp", "m1", "GROUPING", FALSE, "gl", "ax", NoType)
       [] s = "gl"    -> SN("gl", "m1", "LEAF", FALSE, NoSchema, NoSchema, TypeOf(LY_TYPE_STRING))
       [] s = "ax"    -> SN("ax", "m1", "ANYXML", FALSE, NoSchema, "baz", NoType)
       [] s = "baz"   -> SN("baz", "m2", "LEAF", FALSE, NoSchema, "ref", TypeOf(LY_TYPE_STRING))
       [] s = "ref"   -> SN("ref", "m1", "LEAF", FALSE, NoSchema, "iid", LeafrefTo("ll"))
       [] s = "iid"   -> SN("iid", "m1", "LEAF", FALSE, NoSchema, "lst", TypeOf(LY_TYPE_INST))
       [] s = "lst"   -> SN("lst", "m1", "LIST", FALSE, "k", "us", NoType)
       [] s = "us"    -> SN("grp", "m1", "USES", FALSE, "ul", NoSchema, NoType)
       [] s = "ul"    -> SN("ul", "m1", "LEAF", FALSE, NoSchema, NoSchema, TypeOf(LY_TYPE_STRING))
       [] s = "k"     -> SN("k", "m1", "LEAF", FALSE, NoSchema, NoSchema, TypeOf(LY_TYPE_STRING))
       [] s = "tg"    -> SN("tg", "m1", "GROUPING", FALSE, "tgl", "tch", NoType)
       [] s = "tgl"   -> SN("tgl", "m1", "LEAF", FALSE, NoSchema, NoSchema, TypeOf(LY_TYPE_STRING))
       [] s = "tch"   -> SN("tch", "m1", "CHOICE", FALSE, "tcs", "op", NoType)
       [] s = "tcs"   -> SN("tcs", "m1", "CASE", FALSE, "tl", NoSchema, NoType)
       [] s = "tl"    -> SN("tl", "m1", "LEAF", FALSE, NoSchema, NoSchema, TypeOf(LY_TYPE_STRING))
       [] s = "op"    -> SN("op", "m1", "RPC", FALSE, "opin", "tid", NoType)
       [] s = "tid"   -> SN("tid", "m1", "LEAF", FALSE, NoSchema, NoSchema, TypeOf(LY_TYPE_IDENT))
       [] s = "opin"  -> SN("input", "m1", "INPUT", FALSE, "in_v", "opout", NoType)
       [] s = "in_v"  -> SN("v", "m1", "LEAF", FALSE, NoSchema, NoSchema, LeafrefTo("out_v"))
       [] s = "opout" -> SN("output", "m1", "OUTPUT", FALSE, "out_v", NoSchema, NoType)
       [] s = "out_v" -> SN("v", "m1", "LEAF", FALSE, NoSchema, NoSchema, TypeOf(LY_TYPE_STRING))
       [] OTHER       -> SN("l2", "m2", "LEAF", FALSE, NoSchema, NoSchema, TypeOf(LY_TYPE_INT8))]

\* the namespace declarations in scope of the elements of the parsed
\* document: p is bound to the namespace of m1, q to a namespace no module
\* has, and every other prefix is not declared
DocNs == [prefix \in {"p", "q"} |-> IF prefix = "p" THEN "urn:m1" ELSE "urn:x"]

\* lyxml_get_ns: the namespace the prefix is bound to at the element, which
\* is given by the declarations in its scope; "" when it is not declared
lyxml_get_ns(xml, prefix) == IF prefix \in DOMAIN xml THEN xml[prefix] ELSE ""

\* ly_ctx_get_module_by_ns: the module that has the namespace, or ""
ly_ctx_get_module_by_ns(ns) ==
  IF \E i \in 1..Len(Models) : lys_module[Models[i]].ns = ns
  THEN LET i == CHOOSE i \in 1..Len(Models) : lys_module[Models[i]].ns = ns
       IN Models[i]
  ELSE ""

(***************************************************************************)
(* The schema resolver.                                                    *)
(***************************************************************************)
Transparent == {"CHOICE", "CASE", "USES", "INPUT", "OUTPUT"}

\* the children of a grouping are searched as those of a choice are
RECURSIVE SearchGroupings(_, _, _)
SearchGroupings(name, ns, start) ==
  IF start = NoSchema THEN NoSchema
  ELSE LET result == lys_node[start] IN
    IF result.nodetype \in Transparent \cup {"GROUPING"}
    THEN LET aux == SearchGroupings(name, ns, result.child) IN
         IF aux # NoSchema THEN aux
         ELSE SearchGroupings(name, ns, result.next)
    ELSE IF result.name = name /\ lys_module[result.module].ns = ns
    THEN start
    ELSE SearchGroupings(name, ns, result.next)

RECURSIVE xml_data_search_schemanode(_, _, _)
xml_data_search_schemanode(name, ns, start) ==
  IF start = NoSchema THEN NoSchema
  ELSE LET result == lys_node[start] IN
    IF result.nodetype = "GROUPING"
    THEN xml_data_search_schemanode(name, ns, result.next)
    ELSE IF result.nodetype \in Transparent
    THEN LET aux == xml_data_search_schemanode(name, ns, result.child) IN
         IF aux # NoSchema THEN aux
         ELSE xml_data_search_schemanode(name, ns, result.next)
    ELSE IF result.name = name /\ lys_module[result.module].ns = ns
    THEN start
    ELSE xml_data_search_schemanode(name, ns, result.next)

(***************************************************************************)
(* The path transformer and the value decoder.                             *)
(*                                                                         *)
(* A text is a record [pfx, loc]: the text pfx:loc, or the text loc when   *)
(* pfx is empty; NoText is the null string of an element with no content.  *)
(***************************************************************************)
\* transform_xml2json: the prefix of the text, an XML prefix, is replaced by
\* the name of the module that has the namespace the prefix is bound to; a
\* text with no prefix is copied; NoText is returned on failure
transform_xml2json(expr, xml) ==
  IF expr = NoText THEN NoText
  ELSE IF expr.pfx = "" THEN expr
  ELSE LET ns == lyxml_get_ns(xml, expr.pfx) IN
    IF ns = "" THEN NoText
    ELSE LET mod == ly_ctx_get_module_by_ns(ns) IN
      IF mod = "" THEN NoText
      ELSE [pfx |-> mod, loc |-> expr.loc]

\* the identities of the modules that are derived from the base identity
\* of the identityref types
DerivedIdentities == [m \in {"m1", "m2"} |-> IF m = "m1" THEN {"id1"} ELSE {}]

\* the built-in base a leafref ends at, following the targets
RECURSIVE LeafrefTargetType(_)
LeafrefTargetType(type) ==
  IF type.base = LY_TYPE_LEAFREF
  THEN LeafrefTargetType(lys_node[type.target].type)
  ELSE type

\* whether a text is a value of a built-in type
RECURSIVE ValueOfType(_, _)
ValueOfType(type, text) ==
  CASE type.base = LY_TYPE_BOOL    -> text.pfx = "" /\ text.loc \in {"true", "false"}
    [] type.base = LY_TYPE_INT8    -> text.pfx = "" /\ text.loc = "42"
    [] type.base = LY_TYPE_ENUM    -> text.pfx = "" /\ text.loc = "a"
    [] type.base = LY_TYPE_EMPTY   -> text = NoText
    [] type.base = LY_TYPE_STRING  -> TRUE
    [] type.base = LY_TYPE_IDENT   -> /\ text.pfx \in DOMAIN DerivedIdentities
                                      /\ text.loc \in DerivedIdentities[text.pfx]
    [] type.base = LY_TYPE_INST    -> text.pfx \in DOMAIN lys_module /\ text.loc # ""
    [] type.base = LY_TYPE_LEAFREF -> ValueOfType(LeafrefTargetType(type), text)
    [] OTHER                       -> FALSE

\* lyp_parse_value: 0 when the text is a value of the type; a leafref or an
\* instance-identifier is recorded for the resolve pass when resolve is set,
\* and flagged unresolved in the value type when it is not
lyp_parse_value(value_str, value_type, type, resolve) ==
  IF ~ValueOfType(type, value_str)
  THEN [r |-> 1, value_type |-> value_type, unres |-> "none"]
  ELSE CASE type.base = LY_TYPE_LEAFREF ->
              IF resolve
              THEN [r |-> 0, value_type |-> value_type, unres |-> "UNRES_LEAFREF"]
              ELSE [r |-> 0,
                    value_type |-> LeafrefTargetType(type).base + LY_TYPE_LEAFREF_UNRES,
                    unres |-> "none"]
         [] type.base = LY_TYPE_INST ->
              IF resolve
              THEN [r |-> 0, value_type |-> value_type, unres |-> "UNRES_INSTID"]
              ELSE [r |-> 0, value_type |-> value_type + LY_TYPE_INST_UNRES,
                    unres |-> "none"]
         [] OTHER -> [r |-> 0, value_type |-> value_type, unres |-> "none"]

\* lyp_get_next_union_type: the index of the member type after member prev
\* (0 for the first one), 0 when there is none
lyp_get_next_union_type(stype, prev) ==
  IF prev < Len(stype.types) THEN prev + 1 ELSE 0

PathBearing(base) == base = LY_TYPE_IDENT \/ base = LY_TYPE_INST

\* the result of xml_get_value: the return value, the fields of the leaf,
\* xml->content, the record added to unres, the error logged and the value
\* of resolve the value was decoded with
GV(ret, value_str, value_type, content, unres, vecode, resolve) ==
  [ret |-> ret, value_str |-> value_str, value_type |-> value_type,
   content |-> content, unres |-> unres, vecode |-> vecode, resolve |-> resolve]

\* the loop over the member types of a union, entered with member type t:
\* Member is the body of the loop for a member type that is not path-bearing
\* or whose text str is the translation of the text left in content
RECURSIVE UnionLoop(_, _, _, _, _, _, _)
\* the member types after the first one are not tried
MemberFirstOnly(stype, t, str, content, pv, resolve, xml) ==
  IF pv.r = 0
  THEN GV(EXIT_SUCCESS, str, pv.value_type, content, pv.unres, "none", resolve)
  ELSE GV(EXIT_FAILURE, str, pv.value_type, content, "none", "LYE_INVAL", resolve)

\* value_type stays the type of the union when a member type accepts
MemberOfUnion(stype, t, str, content, pv, resolve, xml) ==
  IF pv.r = 0
  THEN GV(EXIT_SUCCESS, str, stype.base, content, pv.unres, "none", resolve)
  ELSE IF PathBearing(stype.types[t].base)
  THEN UnionLoop(stype, lyp_get_next_union_type(stype, t), content, pv.value_type,
                 NoText, resolve, xml)
  ELSE UnionLoop(stype, lyp_get_next_union_type(stype, t), str, pv.value_type,
                 content, resolve, xml)

Member(stype, t, str, content, pv, resolve, xml) ==
  IF pv.r = 0
  THEN GV(EXIT_SUCCESS, str, pv.value_type, content, pv.unres, "none", resolve)
  ELSE IF PathBearing(stype.types[t].base)
  THEN UnionLoop(stype, lyp_get_next_union_type(stype, t), content, pv.value_type,
                 NoText, resolve, xml)
  ELSE UnionLoop(stype, lyp_get_next_union_type(stype, t), str, pv.value_type,
                 content, resolve, xml)

\* a member type whose translation fails fails the value
PathMemberFails(stype, t, value_str, json, resolve, xml) ==
  IF json = NoText
  THEN GV(EXIT_FAILURE, value_str, stype.types[t].base, NoText, "none", "LYE_INVAL",
          resolve)
  ELSE Member(stype, t, json, value_str,
              lyp_parse_value(json, stype.types[t].base, stype.types[t], resolve),
              resolve, xml)

PathMember(stype, t, value_str, json, resolve, xml) ==
  IF json = NoText
  THEN \* the member type is skipped, the text is put back
       UnionLoop(stype, lyp_get_next_union_type(stype, t), value_str,
                 stype.types[t].base, NoText, resolve, xml)
  ELSE Member(stype, t, json, value_str,
              lyp_parse_value(json, stype.types[t].base, stype.types[t], resolve),
              resolve, xml)

UnionLoop(stype, t, value_str, value_type, content, resolve, xml) ==
  IF t = 0
  THEN GV(EXIT_FAILURE, value_str, value_type, content, "none", "LYE_INVAL", resolve)
  ELSE IF PathBearing(stype.types[t].base)
  THEN PathMember(stype, t, value_str, transform_xml2json(value_str, xml), resolve, xml)
  ELSE Member(stype, t, value_str, content,
              lyp_parse_value(value_str, stype.types[t].base, stype.types[t], resolve),
              resolve, xml)

Single(stype, str, pv, resolve) ==
  IF pv.r # 0
  THEN GV(EXIT_FAILURE, str, pv.value_type, NoText, "none", "LYE_INVAL", resolve)
  ELSE GV(EXIT_SUCCESS, str, pv.value_type, NoText, pv.unres, "none", resolve)

Decode(stype, str, resolve, xml) ==
  IF PathBearing(stype.base) /\ str = NoText
  THEN GV(EXIT_FAILURE, str, stype.base, NoText, "none", "LYE_SPEC", resolve)
  ELSE IF stype.base = LY_TYPE_UNION
  THEN UnionLoop(stype, lyp_get_next_union_type(stype, 0), str, stype.base,
                 NoText, resolve, xml)
  ELSE Single(stype, str, lyp_parse_value(str, stype.base, stype, resolve), resolve)

\* LYD_OPT_GETCONFIG is left out of the mask
ResolvingGetconfig(options) == (options \cap {"FILTER", "EDIT", "GET"}) = {}

Resolving(options) == (options \cap {"FILTER", "EDIT", "GET", "GETCONFIG"}) = {}

xml_get_value(stype, xmlcontent, options, xml) ==
  IF "FILTER" \in options /\ xmlcontent = NoText
  THEN GV(EXIT_SUCCESS, xmlcontent, stype.base, NoText, "none", "none",
          Resolving(options))
  ELSE Decode(stype,
              IF PathBearing(stype.base) THEN transform_xml2json(xmlcontent, xml)
              ELSE xmlcontent,
              Resolving(options), xml)

(***************************************************************************)
(* The data tree: the nodes allocated so far, a node being the index of    *)
(* its record (struct lyd_node and its leaf and anyxml variants).          *)
(***************************************************************************)
NewNode(schema, parent) ==
  [alive |-> TRUE, schema |-> schema, parent |-> parent, prev |-> NULL,
   next |-> NULL, child |-> NULL, attr |-> <<>>, value_str |-> NoText,
   value_type |-> LY_TYPE_DER, leafref |-> NULL, value |-> <<>>]

\* the first sibling of a list, looked for from its last node as the loops
\* that fix the "last" pointer do; the walk ends after as many steps as
\* there are nodes
RECURSIVE FirstSibling(_, _, _, _)
FirstSibling(h, diter, last, fuel) ==
  IF h[diter].prev = last \/ h[diter].prev = NULL \/ fuel = 0 THEN diter
  ELSE FirstSibling(h, h[diter].prev, last, fuel - 1)

\* whether node a is node n or is below it
RECURSIVE IsBelow(_, _, _, _)
IsBelow(h, a, n, fuel) ==
  IF a = n THEN TRUE
  ELSE IF a = NULL \/ fuel = 0 THEN FALSE
  ELSE IsBelow(h, h[a].parent, n, fuel - 1)

\* lyd_unlink: the node is taken out of its sibling list and from its parent
UnlinkPrev(h, node, n) ==
  IF n.prev # NULL /\ h[n.prev].next # NULL
  THEN [h EXCEPT ![n.prev].next = n.next] ELSE h

UnlinkNext(h, node, n) ==
  IF n.next # NULL THEN [h EXCEPT ![n.next].prev = n.prev]
  ELSE IF n.prev = NULL THEN h
  ELSE [h EXCEPT ![FirstSibling(h, n.prev, node, Len(h))].prev = n.prev]

UnlinkParent(h, node, n) ==
  IF n.parent # NULL /\ h[n.parent].child = node
  THEN [h EXCEPT ![n.parent].child = n.next] ELSE h

lyd_unlink(h, node) ==
  [UnlinkParent(UnlinkNext(UnlinkPrev(h, node, h[node]), node, h[node]), node, h[node])
     EXCEPT ![node].parent = NULL, ![node].next = NULL, ![node].prev = node]

\* lyd_free: the node is unlinked and it and its subtree are freed
FreeBelow(h, u, node) ==
  [a \in 1..Len(h) |->
     IF IsBelow(h, a, node, Len(h)) THEN [u[a] EXCEPT !.alive = FALSE] ELSE u[a]]

lyd_free(h, node) == FreeBelow(h, lyd_unlink(h, node), node)

\* only the first of the siblings is freed
FreeSiblingsFirst(h, iter, fuel) ==
  IF iter = NULL \/ fuel = 0 THEN h ELSE lyd_free(h, iter)

\* LY_TREE_FOR_SAFE(result, next, iter) lyd_free(iter)
RECURSIVE FreeSiblings(_, _, _)
FreeSiblings(h, iter, fuel) ==
  IF iter = NULL \/ fuel = 0 THEN h
  ELSE FreeSiblings(lyd_free(h, iter), h[iter].next, fuel - 1)

(***************************************************************************)
(* The tree builder: xml_parse_data up to the linking of the new node.     *)
(***************************************************************************)
\* an XML attribute: type is "STD" for an attribute and "NS" for a namespace
\* declaration, ns is "" for an attribute with no namespace
Attr(type, ns, name, value) == [type |-> type, ns |-> ns, name |-> name, value |-> value]

\* an XML element; ns is "" for an element with no namespace
Elem(name, ns, attr) == [name |-> name, ns |-> ns, attr |-> attr]

\* the module of ctx->models.list that has the namespace, as the loop over
\* the modules finds it, and the first top-level node of it with the name
RECURSIVE ByName(_, _)
ByName(name, start) ==
  IF start = NoSchema THEN NoSchema
  ELSE IF lys_node[start].name = name THEN start
  ELSE ByName(name, lys_node[start].next)

RootSchema(name, ns) ==
  LET mod == ly_ctx_get_module_by_ns(ns) IN
  IF mod = "" THEN NoSchema ELSE ByName(name, lys_module[mod].data)

\* the first loop of the insert/value check: i after the insert attributes,
\* or the error the loop ends with
RECURSIVE InsertLoop(_, _, _, _)
InsertLoop(attr, k, i, schema) ==
  IF k > Len(attr) THEN [i |-> i, err |-> "none"]
  ELSE LET a == attr[k] IN
    IF a.type # "STD" \/ a.ns = "" \/ a.name # "insert" \/ a.ns # LY_NSYANG
    THEN InsertLoop(attr, k + 1, i, schema)
    ELSE IF ~lys_node[schema].userordered THEN [i |-> i, err |-> "LYE_INATTR"]
    ELSE IF i # 0 THEN [i |-> i, err |-> "LYE_TOOMANY"]
    ELSE IF a.value \in {"first", "last"} THEN InsertLoop(attr, k + 1, 1, schema)
    ELSE IF a.value \in {"before", "after"} THEN InsertLoop(attr, k + 1, 2, schema)
    ELSE [i |-> i, err |-> "LYE_INARG"]

\* the second loop: i after the value attributes, or the error
RECURSIVE ValueLoop(_, _, _)
ValueLoop(attr, k, i) ==
  IF k > Len(attr) THEN [i |-> i, err |-> "none"]
  ELSE LET a == attr[k] IN
    IF a.type # "STD" \/ a.ns = "" \/ a.name # "value" \/ a.ns # LY_NSYANG
    THEN ValueLoop(attr, k + 1, i)
    ELSE IF i < 2 THEN [i |-> i, err |-> "LYE_INATTR"]
    ELSE ValueLoop(attr, k + 1, i + 1)

\* a repeated value attribute passes
CheckInsertRepeated(attr, schema) ==
  LET ins == InsertLoop(attr, 1, 0, schema) IN
  IF ins.err # "none" THEN ins.err
  ELSE LET val == ValueLoop(attr, 1, ins.i) IN
    IF val.err # "none" THEN val.err
    ELSE IF val.i = 2 THEN "LYE_MISSATTR"
    ELSE "none"

\* the check of the insert and value attributes: the error logged, or "none"
CheckInsert(attr, schema) ==
  LET ins == InsertLoop(attr, 1, 0, schema) IN
  IF ins.err # "none" THEN ins.err
  ELSE LET val == ValueLoop(attr, 1, ins.i) IN
    IF val.err # "none" THEN val.err
    ELSE IF val.i = 2 THEN "LYE_MISSATTR"
    ELSE IF val.i > 3 THEN "LYE_TOOMANY"
    ELSE "none"

Instantiable == {"CONTAINER", "LIST", "NOTIF", "RPC", "LEAF", "LEAFLIST", "ANYXML"}

\* the new node is linked to its parent and after prev
LinkParent(h, result, parent) ==
  IF parent # NULL /\ h[parent].child = NULL
  THEN [h EXCEPT ![parent].child = result] ELSE h

\* the new node is linked after prev and the first sibling's prev is left
\* as it was
LinkLastNot(h, result, prev) == h

LinkLast(h, result, prev) ==
  [h EXCEPT ![FirstSibling(h, prev, prev, Len(h))].prev = result]

\* the next of prev is left as it was
LinkPrevOneWay(h, result, prev) ==
  IF prev # NULL
  THEN LinkLast([h EXCEPT ![result].prev = prev], result, prev)
  ELSE [h EXCEPT ![result].prev = result]

LinkPrev(h, result, prev) ==
  IF prev # NULL
  THEN LinkLast([h EXCEPT ![result].prev = prev, ![prev].next = result], result, prev)
  ELSE [h EXCEPT ![result].prev = result]

LinkNode(h, schema, parent, prev) ==
  LinkPrev(LinkParent(Append(h, NewNode(schema, parent)), Len(h) + 1, parent),
           Len(h) + 1, prev)

\* what the first part of xml_parse_data comes to: the new node, linked, or
\* NULL and the value the function returns; the schema node found, the error
\* logged and the tree
PE(ret, result, schema, vecode, errno, h) ==
  [ret |-> ret, result |-> result, schema |-> schema, vecode |-> vecode,
   errno |-> errno, heap |-> h]

\* the schema node of the element: below schema_parent, among the top-level
\* nodes of the module of its namespace, or below the schema node of parent
FindSchema(h, xml, schema_parent, parent) ==
  IF schema_parent # NoSchema
  THEN xml_data_search_schemanode(xml.name, xml.ns, lys_node[schema_parent].child)
  ELSE IF parent = NULL
  THEN RootSchema(xml.name, xml.ns)
  ELSE xml_data_search_schemanode(xml.name, xml.ns, lys_node[h[parent].schema].child)

EditError(xml, schema, options) ==
  IF "EDIT" \in options THEN CheckInsert(xml.attr, schema) ELSE "none"

\* an unknown element is rejected only when a module has its namespace
EnterSchemaOwned(h, xml, schema, err, parent, prev, options) ==
  IF schema = NoSchema
  THEN IF ly_ctx_get_module_by_ns(xml.ns) # ""
       THEN PE(-1, NULL, NoSchema, "LYE_INELEM", "LY_EVALID", h)
       ELSE PE(0, NULL, NoSchema, "none", "none", h)
  ELSE IF err # "none"
  THEN PE(-1, NULL, schema, err, "LY_EVALID", h)
  ELSE IF lys_node[schema].nodetype \notin Instantiable
  THEN PE(-1, NULL, schema, "none", "LY_EINT", h)
  ELSE PE(0, Len(h) + 1, schema, "none", "none", LinkNode(h, schema, parent, prev))

EnterSchema(h, xml, schema, err, parent, prev, options) ==
  IF schema = NoSchema
  THEN IF "STRICT" \in options \/ ly_ctx_get_module_by_ns(xml.ns) # ""
       THEN PE(-1, NULL, NoSchema, "LYE_INELEM", "LY_EVALID", h)
       ELSE PE(0, NULL, NoSchema, "none", "none", h)
  ELSE IF err # "none"
  THEN PE(-1, NULL, schema, err, "LY_EVALID", h)
  ELSE IF lys_node[schema].nodetype \notin Instantiable
  THEN PE(-1, NULL, schema, "none", "LY_EINT", h)
  ELSE PE(0, Len(h) + 1, schema, "none", "none", LinkNode(h, schema, parent, prev))

EnterFound(h, xml, schema, parent, prev, options) ==
  EnterSchema(h, xml, schema,
              IF schema = NoSchema THEN "none" ELSE EditError(xml, schema, options),
              parent, prev, options)

xml_parse_enter(h, xml, schema_parent, parent, prev, options) ==
  IF xml.ns = ""
  THEN PE(-1, NULL, NoSchema, "LYE_XML_MISS", "LY_EVALID", h)
  ELSE EnterFound(h, xml, FindSchema(h, xml, schema_parent, parent), parent, prev, options)

(***************************************************************************)
(* The resolve pass over the records of unres.                             *)
(***************************************************************************)
\* the nodes of the tree a record resolves to: for a leafref the instances
\* of the target leaf with the value of the leaf, for an instance-identifier
\* the instances of the schema node the path names
Targets(h, rec) ==
  LET leaf == h[rec.node] IN
  IF rec.type = "UNRES_LEAFREF"
  THEN {a \in 1..Len(h) : /\ h[a].alive
                          /\ h[a].schema = lys_node[leaf.schema].type.target
                          /\ h[a].value_str = leaf.value_str}
  ELSE {a \in 1..Len(h) : /\ h[a].alive
                          /\ lys_node[h[a].schema].name = leaf.value_str.loc
                          /\ lys_node[h[a].schema].module = leaf.value_str.pfx}

\* resolve_unres_data: every record is resolved in turn; the pass fails at
\* the first record with no target
Lowest(t) == CHOOSE a \in t : \A b \in t : a <= b

RECURSIVE resolve_unres_data(_, _, _)
ResolveOne(h, recs, k, t) ==
  IF t = {} THEN [r |-> 1, heap |-> h]
  ELSE resolve_unres_data([h EXCEPT ![recs[k].node].leafref = Lowest(t)], recs, k + 1)

resolve_unres_data(h, recs, k) ==
  IF k > Len(recs) THEN [r |-> 0, heap |-> h]
  ELSE ResolveOne(h, recs, k, Targets(h, recs[k]))

(***************************************************************************)
(* The parse as a state machine: lyd_parse_xml_ and the calls of           *)
(* xml_parse_data it makes, one frame of the stack for each call.          *)
(***************************************************************************)
VARIABLES
  options,        \* the options the entry point was called with
  rpc,            \* the schema node lyd_parse_output_xml was called with, or NoSchema
  heap,           \* the data nodes
  stack,          \* the calls of xml_parse_data that have not returned
  top,            \* lyd_parse_xml_: where it is, result and last
  unres,          \* the records of leafrefs and instance-identifiers to resolve
  ly_errno,       \* the error flag
  ly_vecode,      \* the code of the last validation error logged
  nelems,         \* the number of XML elements read so far
  failed,         \* whether a call of xml_parse_data or the resolve pass has failed
  ev,             \* what the last step did
  arg,            \* the arguments of a function applied on its own
  out             \* and what it returned

vars == <<options, rpc, heap, stack, top, unres, ly_errno, ly_vecode, nelems,
          failed, ev, arg, out>>

\* the option sets and the elements and texts of the documents parsed
OptionSets == {{}, {"STRICT"}, {"FILTER"}, {"EDIT"}, {"GETCONFIG"}}

YangAttr(name, value) == Attr("STD", LY_NSYANG, name, value)

Elements ==
  { Elem("cont", "urn:m1", <<>>),
    Elem("ll", "urn:m1", <<>>),
    Elem("ll", "urn:m1", <<YangAttr("insert", "before"), YangAttr("value", "a")>>),
    Elem("lf", "urn:m1", <<Attr("STD", "urn:m1", "at", "1")>>),
    Elem("cl", "urn:m1", <<YangAttr("insert", "first")>>),
    Elem("gl", "urn:m1", <<>>),
    Elem("ref", "urn:m1", <<>>),
    Elem("ax", "urn:m1", <<>>),
    Elem("op", "urn:m1", <<>>),
    Elem("v", "urn:m1", <<>>),
    Elem("tg", "urn:m1", <<>>),
    Elem("zz", "urn:x", <<>>),
    Elem("zz", "", <<>>) }

Texts == {NoText, [pfx |-> "", loc |-> "a"], [pfx |-> "p", loc |-> "id1"],
          [pfx |-> "z", loc |-> "id1"]}

\* the value is processed first, the hook is not called
FrameValueFirst(xml, node, schema, opts) ==
  [xml |-> xml, node |-> node, schema |-> schema, options |-> opts,
   dlast |-> NULL, pc |-> "value"]

\* the call of xml_parse_data that has linked its node: the next statement
\* is the call of lyv_data_context
Frame(xml, node, schema, opts) ==
  [xml |-> xml, node |-> node, schema |-> schema, options |-> opts,
   dlast |-> NULL, pc |-> "context"]

\* lyd_parse_xml_ after unres was allocated: where it is, result, last and
\* whether unres is still allocated
Top(pc, result, last) ==
  [pc |-> pc, result |-> result, last |-> last, unres |-> "allocated"]

\* the label cleanup: unres and its arrays are freed, the function returns
Cleanup(t) == [t EXCEPT !.unres = "freed"]

\* the resolve pass is entered without a result too
AfterLoopAlways(t) == [t EXCEPT !.pc = "resolve"]

\* after the loop over the elements: goto cleanup when there is no result
AfterLoop(t) ==
  IF t.result = NULL THEN Cleanup([t EXCEPT !.pc = "done"])
  ELSE [t EXCEPT !.pc = "resolve"]

\* the state before the entry point is called
Start ==
  /\ heap = <<>>
  /\ stack = <<>>
  /\ top = Top("loop", NULL, NULL)
  /\ unres = <<>>
  /\ ly_errno = "LY_SUCCESS"
  /\ ly_vecode = "none"
  /\ nelems = 0
  /\ failed = FALSE
  /\ ev = [op |-> "init"]

Init ==
  /\ options \in OptionSets
  /\ rpc \in {NoSchema, "op"}
  /\ Start
  /\ arg = <<>>
  /\ out = <<>>

Pop(stk) == SubSeq(stk, 1, Len(stk) - 1)
Cur == stack[Len(stack)]

\* a call of xml_parse_data has returned r and *result = diter to its
\* caller: the loop over the children of the calling frame, or the loop of
\* lyd_parse_xml_ when no call is left
Deliver(stk, h, r, diter) ==
  /\ failed' = (r # 0)
  /\ IF stk # <<>>
     THEN /\ heap' = h
          /\ top' = top
          /\ stack' = IF r # 0
                      THEN [stk EXCEPT ![Len(stk)].pc = "error"]
                      ELSE IF diter # NULL
                      THEN [stk EXCEPT ![Len(stk)].dlast = diter]
                      ELSE stk
     ELSE /\ stack' = stk
          /\ IF r # 0
             THEN /\ heap' = FreeSiblings(h, top.result, Len(h))
                  /\ top' = Cleanup(Top("done", NULL, top.last))
             ELSE /\ heap' = h
                  /\ top' = Top("loop",
                                IF top.result = NULL THEN diter ELSE top.result,
                                IF diter # NULL THEN diter ELSE top.last)

\* xml_parse_data is called for the next element, by lyd_parse_xml_ or for
\* a child of the element of the last frame, and runs until the new node is
\* linked or the function returns
EnterDo(pe, xml, parent, opts) ==
  /\ nelems' = nelems + 1
  /\ ly_errno' = IF pe.errno # "none" THEN pe.errno ELSE ly_errno
  /\ ly_vecode' = IF pe.vecode # "none" THEN pe.vecode ELSE ly_vecode
  /\ ev' = [op |-> "enter", xml |-> xml, options |-> opts, parent |-> parent,
            ret |-> pe.ret, result |-> pe.result, schema |-> pe.schema]
  /\ IF pe.result # NULL
     THEN /\ heap' = pe.heap
          /\ stack' = Append(stack, Frame(xml, pe.result, pe.schema, opts))
          /\ UNCHANGED <<top, failed>>
     ELSE Deliver(stack, pe.heap, pe.ret, NULL)
  /\ UNCHANGED <<options, rpc, unres, arg, out>>

Enter(xml, schema_parent, parent, prev, opts) ==
  EnterDo(xml_parse_enter(heap, xml, schema_parent, parent, prev, opts), xml, parent, opts)

TopCall ==
  /\ top.pc = "loop" /\ stack = <<>> /\ nelems < MaxElems
  /\ \E xml \in Elements : Enter(xml, rpc, NULL, top.last, options)

\* the options the children of a node are parsed with
ChildOptions(schema, opts) ==
  IF lys_node[schema].nodetype \in {"RPC", "NOTIF"} THEN {} ELSE opts

ChildCall ==
  /\ stack # <<>> /\ Cur.pc = "children" /\ nelems < MaxElems
  /\ \E xml \in Elements :
       Enter(xml, NoSchema, Cur.node, Cur.dlast, ChildOptions(Cur.schema, Cur.options))

\* the error and clear labels of xml_parse_data: the node is freed and the
\* function returns ret
Leave(h, ret) ==
  Deliver(Pop(stack), lyd_free(h, Cur.node), ret, NULL)

\* lyv_data_context is called for the new node
Context ==
  /\ stack # <<>> /\ Cur.pc = "context"
  /\ \E ok \in BOOLEAN :
       /\ ev' = [op |-> "context", node |-> Cur.node, ok |-> ok]
       /\ IF ok
          THEN /\ stack' = [stack EXCEPT ![Len(stack)].pc = "value"]
               /\ UNCHANGED <<heap, top, ly_errno, ly_vecode, failed>>
          ELSE /\ Leave(heap, -1)
               /\ ly_errno' = "LY_EVALID"
               /\ ly_vecode' = "LYE_SPEC"
  /\ UNCHANGED <<options, rpc, unres, nelems, arg, out>>

\* the type specific processing: the value of a leaf (the children of an
\* anyxml element are not part of the data tree)
ValueDo(gv, content) ==
  /\ ev' = [op |-> "value", node |-> Cur.node, parent |-> heap[Cur.node].parent,
            content |-> content, ret |-> gv.ret, resolve |-> gv.resolve]
  /\ unres' = IF gv.unres # "none"
              THEN Append(unres, [node |-> Cur.node, type |-> gv.unres])
              ELSE unres
  /\ IF gv.ret = EXIT_SUCCESS
     THEN /\ heap' = [heap EXCEPT ![Cur.node].value_str = gv.value_str,
                                  ![Cur.node].value_type = gv.value_type]
          /\ stack' = [stack EXCEPT ![Len(stack)].pc = "attrs"]
          /\ UNCHANGED <<top, ly_errno, ly_vecode, failed>>
     ELSE /\ Leave([heap EXCEPT ![Cur.node].value_str = gv.value_str,
                                ![Cur.node].value_type = gv.value_type], -1)
          /\ ly_errno' = "LY_EVALID"
          /\ ly_vecode' = gv.vecode

\* lyxml_unlink_elem: the element is taken out of the children of its
\* parent and is left with no sibling; next is its next pointer afterwards
lyxml_unlink_elem(children, child) ==
  [children |-> SelectSeq(children, LAMBDA c : c # child), next |-> NULL]

\* the loop over the XML children of an anyxml element, children being
\* xml->child and its siblings, child the element the loop is at and payload
\* the list from first_child to last_child: the child is unlinked and put
\* at the end of the list, and the loop goes on with child->next
RECURSIVE AnyxmlLoop(_, _, _)
AnyxmlNext(unlinked, payload) == AnyxmlLoop(unlinked.children, unlinked.next, payload)

AnyxmlLoop(children, child, payload) ==
  IF child = NULL THEN [value |-> payload, children |-> children]
  ELSE AnyxmlNext(lyxml_unlink_elem(children, child), Append(payload, child))

\* the XML children of an anyxml element: k elements, in their order
XmlChildren(k) == [i \in 1..k |-> i]

AnyxmlDo(children, res) ==
  /\ ev' = [op |-> "anyxml", node |-> Cur.node, children |-> children,
            left |-> res.children]
  /\ heap' = [heap EXCEPT ![Cur.node].value = res.value]
  /\ stack' = [stack EXCEPT ![Len(stack)].pc = "attrs"]
  /\ UNCHANGED <<top, unres, ly_errno, ly_vecode, failed>>

Anyxml(children) ==
  AnyxmlDo(children,
           AnyxmlLoop(children, IF children = <<>> THEN NULL ELSE children[1], <<>>))

Value ==
  /\ stack # <<>> /\ Cur.pc = "value"
  /\ IF lys_node[Cur.schema].nodetype \in {"LEAF", "LEAFLIST"}
     THEN \E content \in Texts :
            ValueDo(xml_get_value(lys_node[Cur.schema].type, content, Cur.options, DocNs), content)
     ELSE IF lys_node[Cur.schema].nodetype = "ANYXML" /\ "FILTER" \notin Cur.options
     THEN \E k \in 0..MaxKids : Anyxml(XmlChildren(k))
     ELSE /\ ev' = [op |-> "novalue", node |-> Cur.node]
          /\ stack' = [stack EXCEPT ![Len(stack)].pc = "attrs"]
          /\ UNCHANGED <<heap, top, unres, ly_errno, ly_vecode, failed>>
  /\ UNCHANGED <<options, rpc, nelems, arg, out>>

\* the attributes of the element are copied to the node
RECURSIVE CopyAttrs(_, _)
\* an attribute of a namespace no module has is copied as well
CopyAttrUnknown(attr, k, module) ==
  IF attr[k].type # "STD" \/ attr[k].ns = ""
  THEN CopyAttrs(attr, k + 1)
  ELSE <<[module |-> module, name |-> attr[k].name, value |-> attr[k].value]>>
       \o CopyAttrs(attr, k + 1)

CopyAttr(attr, k, module) ==
  IF attr[k].type # "STD" \/ attr[k].ns = "" \/ module = ""
  THEN CopyAttrs(attr, k + 1)
  ELSE <<[module |-> module, name |-> attr[k].name, value |-> attr[k].value]>>
       \o CopyAttrs(attr, k + 1)

CopyAttrs(attr, k) ==
  IF k > Len(attr) THEN <<>>
  ELSE CopyAttr(attr, k, ly_ctx_get_module_by_ns(attr[k].ns))

\* who holds the name and the value of attribute k of the element after the
\* loop: the XML attribute when the loop passes it over, else the data
\* attribute they are moved to, and nobody when that one is freed again
\* because no module has the namespace
AttrHolder(attr, k, module) ==
  IF attr[k].type # "STD" \/ attr[k].ns = "" THEN "xml"
  ELSE IF module = "" THEN "none"
  ELSE "data"

AttrHolders(attr) ==
  [k \in DOMAIN attr |-> AttrHolder(attr, k, ly_ctx_get_module_by_ns(attr[k].ns))]

HaveChildren(schema) == lys_node[schema].nodetype \in {"CONTAINER", "LIST", "NOTIF", "RPC"}

Attrs ==
  /\ stack # <<>> /\ Cur.pc = "attrs"
  /\ heap' = [heap EXCEPT ![Cur.node].attr = CopyAttrs(Cur.xml.attr, 1)]
  /\ stack' = [stack EXCEPT ![Len(stack)].pc =
                 IF HaveChildren(Cur.schema) THEN "children" ELSE "content"]
  /\ ev' = [op |-> "attrs", node |-> Cur.node, xml |-> Cur.xml,
            holders |-> AttrHolders(Cur.xml.attr)]
  /\ UNCHANGED <<options, rpc, top, unres, ly_errno, ly_vecode, nelems, failed, arg, out>>

\* the element has no child left
ChildrenDone ==
  /\ stack # <<>> /\ Cur.pc = "children"
  /\ stack' = [stack EXCEPT ![Len(stack)].pc = "content"]
  /\ ev' = [op |-> "children", node |-> Cur.node]
  /\ UNCHANGED <<options, rpc, heap, top, unres, ly_errno, ly_vecode, nelems, failed,
                 arg, out>>

\* a child has failed: goto error
GotoError ==
  /\ stack # <<>> /\ Cur.pc = "error"
  /\ Leave(heap, -1)
  /\ ev' = [op |-> "error", node |-> Cur.node]
  /\ UNCHANGED <<options, rpc, unres, ly_errno, ly_vecode, nelems, arg, out>>

\* the label clear counts as an error too
ContentRetError(res) == -1

\* what xml_parse_data returns when lyv_data_content has not returned 0:
\* through the label error with ly_errno set, through clear without
ContentRet(res) == IF res = "error" THEN -1 ELSE 0

\* ly_errno is reset and lyv_data_content is called: it returns 0, or not 0
\* with or without ly_errno set
Content ==
  /\ stack # <<>> /\ Cur.pc = "content"
  /\ \E res \in {"ok", "error", "clear"} :
       /\ ev' = [op |-> "content", node |-> Cur.node, res |-> res]
       /\ ly_errno' = IF res = "error" THEN "LY_EVALID" ELSE "LY_SUCCESS"
       /\ ly_vecode' = IF res = "error" THEN "LYE_SPEC" ELSE ly_vecode
       /\ IF res = "ok"
          THEN Deliver(Pop(stack), heap, 0, Cur.node)
          ELSE Leave(heap, ContentRet(res))
  /\ UNCHANGED <<options, rpc, unres, nelems, arg, out>>

\* no error is logged when there is no result
EndErrnoKept(result, errno) == errno

\* the error flag after the loop over the elements: an error is logged when
\* there is no result
EndErrno(result, errno) == IF result = NULL THEN "LY_EVALID" ELSE errno

\* the document has no element left: without a result the function returns,
\* with one it goes on to the resolve pass
TopEnd ==
  /\ top.pc = "loop" /\ stack = <<>>
  /\ top' = AfterLoop(top)
  /\ ly_errno' = EndErrno(top.result, ly_errno)
  /\ ev' = [op |-> "end"]
  /\ UNCHANGED <<options, rpc, heap, stack, unres, ly_vecode, nelems, failed, arg, out>>

\* the leafrefs and the instance-identifiers are resolved
ResolveDo(res) ==
  /\ ev' = [op |-> "resolve", r |-> res.r]
  /\ failed' = (res.r # 0)
  /\ IF res.r # 0
     THEN /\ heap' = FreeSiblings(res.heap, top.result, Len(heap))
          /\ top' = Cleanup(Top("done", NULL, top.last))
          /\ ly_errno' = "LY_EVALID"
          /\ ly_vecode' = "LYE_NORESOLV"
     ELSE /\ heap' = res.heap
          /\ top' = Cleanup(Top("done", top.result, top.last))
          /\ UNCHANGED <<ly_errno, ly_vecode>>

\* resolve_unres_data reads the leaf of each record; the leaf of a record
\* may have been freed since, and what the pass comes to when it reads
\* freed memory is not determined: it is any of the results below
ResolveOutcomes(h, recs) ==
  IF \A k \in DOMAIN recs : h[recs[k].node].alive
  THEN {resolve_unres_data(h, recs, 1)}
  ELSE {resolve_unres_data(h, recs, 1), [r |-> 0, heap |-> h], [r |-> 1, heap |-> h]}

Resolve ==
  /\ top.pc = "resolve"
  /\ \E res \in ResolveOutcomes(heap, unres) : ResolveDo(res)
  /\ UNCHANGED <<options, rpc, stack, unres, nelems, arg, out>>

Next ==
  \/ TopCall
  \/ ChildCall
  \/ Context
  \/ Value
  \/ Attrs
  \/ ChildrenDone
  \/ GotoError
  \/ Content
  \/ TopEnd
  \/ Resolve

Spec == Init /\ [][Next]_vars

(***************************************************************************)
(* xml_get_value on its own: a leaf of any type of the set below, with any *)
(* content, under any options.                                             *)
(***************************************************************************)
MemberTypes ==
  {TypeOf(LY_TYPE_IDENT), TypeOf(LY_TYPE_INST), TypeOf(LY_TYPE_BOOL),
   TypeOf(LY_TYPE_INT8), TypeOf(LY_TYPE_ENUM), TypeOf(LY_TYPE_EMPTY),
   TypeOf(LY_TYPE_STRING), LeafrefTo("cl"), LeafrefTo("ll")}

RECURSIVE SeqsUpTo(_, _)
SeqsUpTo(S, n) ==
  IF n = 0 THEN {<<>>}
  ELSE SeqsUpTo(S, n - 1) \cup
       {Append(q, x) : q \in {q \in SeqsUpTo(S, n - 1) : Len(q) = n - 1}, x \in S}

LeafTypes ==
  MemberTypes \cup {UnionOf(types) : types \in SeqsUpTo(MemberTypes, MaxUnion) \ {<<>>}}

XmlTexts ==
  {NoText} \cup [pfx : {"", "p", "q", "z"}, loc : {"id1", "true", "42", "a"}]

InitValue ==
  /\ options = {}
  /\ rpc = NoSchema
  /\ Start
  /\ arg \in [stype : LeafTypes, content : XmlTexts, options : OptionSets]
  /\ out = <<>>

GetValue ==
  /\ out = <<>>
  /\ out' = <<xml_get_value(arg.stype, arg.content, arg.options, DocNs)>>
  /\ UNCHANGED <<options, rpc, heap, stack, top, unres, ly_errno, ly_vecode, nelems,
                 failed, ev, arg>>

NextValue == GetValue

SpecValue == InitValue /\ [][NextValue]_vars

(***************************************************************************)
(* The first part of xml_parse_data on its own: a child element of a       *)
(* container with any attributes of the set below.                         *)
(***************************************************************************)
EditAttrs ==
  { YangAttr("insert", "first"), YangAttr("insert", "before"),
    YangAttr("insert", "middle"), YangAttr("value", "a"),
    Attr("STD", "urn:m1", "insert", "first"), Attr("STD", "", "value", "a"),
    Attr("NS", LY_NSYANG, "insert", "first"), Attr("STD", "urn:m1", "at", "1") }

\* the tree the element is parsed into: one container
OneContainer == LinkNode(<<>>, "cont", NULL, NULL)

InitEdit ==
  /\ options = {}
  /\ rpc = NoSchema
  /\ Start
  /\ arg \in [xml : {Elem(name, "urn:m1", attr) :
                       name \in {"ll", "lf"}, attr \in SeqsUpTo(EditAttrs, MaxAttrs)},
              options : {{"EDIT"}, {"EDIT", "STRICT"}, {}}]
  /\ out = <<>>

EditEnter ==
  /\ out = <<>>
  /\ out' = <<xml_parse_enter(OneContainer, arg.xml, NoSchema, 1, NULL, arg.options)>>
  /\ UNCHANGED <<options, rpc, heap, stack, top, unres, ly_errno, ly_vecode, nelems,
                 failed, ev, arg>>

NextEdit == EditEnter

SpecEdit == InitEdit /\ [][NextEdit]_vars

(***************************************************************************)
(* xml_data_search_schemanode on its own: an element of any name and       *)
(* namespace of the sets below is looked for from any node of the schema.  *)
(***************************************************************************)
ElementNames == {lys_node[s].name : s \in SchemaIds} \cup {"zz"}
ElementNamespaces == {"urn:m1", "urn:m2", "urn:x"}

InitSearch ==
  /\ options = {}
  /\ rpc = NoSchema
  /\ Start
  /\ arg \in [name : ElementNames, ns : ElementNamespaces,
              start : SchemaIds \cup {NoSchema}]
  /\ out = <<>>

Search ==
  /\ out = <<>>
  /\ out' = <<xml_data_search_schemanode(arg.name, arg.ns, arg.start)>>
  /\ UNCHANGED <<options, rpc, heap, stack, top, unres, ly_errno, ly_vecode, nelems,
                 failed, ev, arg>>

NextSearch == Search

SpecSearch == InitSearch /\ [][NextSearch]_vars

(***************************************************************************)
(* The first part of xml_parse_data on its own, called by lyd_parse_xml_   *)
(* for a top-level element of any name and namespace of the sets above:    *)
(* arg.rpc is the schema node lyd_parse_output_xml was called with.        *)
(***************************************************************************)
InitRoot ==
  /\ options \in OptionSets
  /\ rpc = NoSchema
  /\ Start
  /\ arg \in [xml : {Elem(name, ns, <<>>) : name \in ElementNames, ns \in ElementNamespaces},
              rpc : {NoSchema, "op"}]
  /\ out = <<>>

RootEnter ==
  /\ out = <<>>
  /\ out' = <<xml_parse_enter(<<>>, arg.xml, arg.rpc, NULL, NULL, options)>>
  /\ UNCHANGED <<options, rpc, heap, stack, top, unres, ly_errno, ly_vecode, nelems,
                 failed, ev, arg>>

NextRoot == RootEnter

SpecRoot == InitRoot /\ [][NextRoot]_vars

(***************************************************************************)
(* The loop over the attributes of an element on its own: the element has  *)
(* up to MaxAttrs attributes of the kinds below, in any order.             *)
(***************************************************************************)
\* an attribute of m1 and one of m2, one with no namespace, one of a
\* namespace no module has, and a namespace declaration
XmlAttrs ==
  { Attr("STD", "urn:m1", "at", "1"), Attr("STD", "urn:m2", "bt", "2"),
    Attr("STD", "", "ct", "3"), Attr("STD", "urn:x", "dt", "4"),
    Attr("NS", "urn:m1", "z", "urn:m1") }

InitAttrs ==
  /\ options = {}
  /\ rpc = NoSchema
  /\ Start
  /\ arg \in [attr : SeqsUpTo(XmlAttrs, MaxAttrs)]
  /\ out = <<>>

CopyAll ==
  /\ out = <<>>
  /\ out' = <<CopyAttrs(arg.attr, 1)>>
  /\ UNCHANGED <<options, rpc, heap, stack, top, unres, ly_errno, ly_vecode, nelems,
                 failed, ev, arg>>

NextAttrs == CopyAll

SpecAttrs == InitAttrs /\ [][NextAttrs]_vars

(***************************************************************************)
(* Two parses over one context: each is in xml_get_value, decoding the     *)
(* content of a leaf of its own document; arg.ctx is the context they are  *)
(* both called with, of which the dictionary is modelled: the number of    *)
(* references to each string. stack[p] is the call of parse p.             *)
(***************************************************************************)
Parses == {1, 2}

ConcTexts == {[pfx |-> "p", loc |-> "id1"], [pfx |-> "p", loc |-> "zz"],
              [pfx |-> "z", loc |-> "id1"]}

ConcTypes == {TypeOf(LY_TYPE_IDENT),
              UnionOf(<<TypeOf(LY_TYPE_IDENT), TypeOf(LY_TYPE_STRING)>>)}

\* the strings the dictionary can hold
DictStrings == (ConcTexts \cup {transform_xml2json(s, DocNs) : s \in ConcTexts}) \ {NoText}

\* lydict_insert, lydict_remove: a reference to the string more, or less
lydict_insert(ctx, s) == [ctx EXCEPT !.dict[s] = @ + 1]
lydict_remove(ctx, s) == [ctx EXCEPT !.dict[s] = @ - 1]

\* the call of xml_get_value of a parse: where it is, the type of the leaf,
\* xml->content, leaf->value_str, the member type of the union it is at and
\* what it returned
GetValueCall(pc, stype, content, value_str, t, ret) ==
  [pc |-> pc, stype |-> stype, content |-> content, value_str |-> value_str,
   t |-> t, ret |-> ret]

InitConc ==
  /\ options = {}
  /\ rpc = NoSchema
  /\ heap = <<>>
  /\ stack \in [Parses -> {GetValueCall("start", stype, content, NoText, 0, "none") :
                             stype \in ConcTypes, content \in ConcTexts}]
  /\ top = Top("loop", NULL, NULL)
  /\ unres = <<>>
  /\ ly_errno = "LY_SUCCESS"
  /\ ly_vecode = "none"
  /\ nelems = 0
  /\ failed = FALSE
  /\ ev = [op |-> "init"]
  \* the strings in the dictionary are the contents of the elements
  /\ arg = [ctx |-> [dict |-> [s \in DictStrings |->
                                 Cardinality({p \in Parses : stack[p].content = s})]]]
  /\ out = <<>>

ConcStep(p, frame, ctx, op) ==
  /\ stack' = [stack EXCEPT ![p] = frame]
  /\ arg' = [arg EXCEPT !.ctx = ctx]
  /\ ev' = [op |-> op, p |-> p]
  /\ UNCHANGED <<options, rpc, heap, top, unres, ly_errno, ly_vecode, nelems, failed, out>>

\* leaf->value_str = xml->content; xml->content = NULL
ConcMove(p) ==
  /\ stack[p].pc = "start"
  /\ ConcStep(p, [stack[p] EXCEPT !.value_str = stack[p].content, !.content = NoText,
                                  !.t = lyp_get_next_union_type(stack[p].stype, 0),
                                  !.pc = IF PathBearing(stack[p].stype.base) THEN "transform"
                                         ELSE "member"],
              arg.ctx, "move")

\* xml->content = leaf->value_str; leaf->value_str = transform_xml2json(...):
\* the translation is a string of the dictionary
ConcTransform(p) ==
  /\ stack[p].pc = "transform"
  /\ ConcStep(p, [stack[p] EXCEPT !.content = stack[p].value_str,
                                  !.value_str = transform_xml2json(stack[p].value_str, DocNs),
                                  !.pc = "remove"],
              IF transform_xml2json(stack[p].value_str, DocNs) # NoText
              THEN lydict_insert(arg.ctx, transform_xml2json(stack[p].value_str, DocNs))
              ELSE arg.ctx,
              "transform")

\* lydict_remove(ctx, xml->content); xml->content = NULL
ConcRemove(p) ==
  /\ stack[p].pc = "remove"
  /\ ConcStep(p, [stack[p] EXCEPT !.content = NoText,
                                  !.pc = IF stack[p].value_str = NoText THEN "done" ELSE "parse",
                                  !.ret = IF stack[p].value_str = NoText THEN EXIT_FAILURE
                                          ELSE "none"],
              lydict_remove(arg.ctx, stack[p].content), "remove")

\* lyp_parse_value of a leaf that is not a union
ConcParse(p) ==
  /\ stack[p].pc = "parse"
  /\ ConcStep(p, [stack[p] EXCEPT !.pc = "done",
                    !.ret = IF lyp_parse_value(stack[p].value_str, stack[p].stype.base,
                                               stack[p].stype, TRUE).r = 0
                            THEN EXIT_SUCCESS ELSE EXIT_FAILURE],
              arg.ctx, "parse")

\* the head of the loop over the member types of a union
ConcMember(p) ==
  /\ stack[p].pc = "member"
  /\ IF stack[p].t = 0
     THEN ConcStep(p, [stack[p] EXCEPT !.pc = "done", !.ret = EXIT_FAILURE], arg.ctx,
                   "member")
     ELSE IF ~PathBearing(stack[p].stype.types[stack[p].t].base)
     THEN ConcStep(p, [stack[p] EXCEPT !.pc = "member_parse"], arg.ctx, "member")
     ELSE IF transform_xml2json(stack[p].value_str, DocNs) = NoText
     THEN ConcStep(p, [stack[p] EXCEPT
                         !.t = lyp_get_next_union_type(stack[p].stype, stack[p].t)],
                   arg.ctx, "member")
     ELSE ConcStep(p, [stack[p] EXCEPT !.content = stack[p].value_str,
                         !.value_str = transform_xml2json(stack[p].value_str, DocNs),
                         !.pc = "member_parse"],
                   lydict_insert(arg.ctx, transform_xml2json(stack[p].value_str, DocNs)),
                   "member")

\* lyp_parse_value of a member type, and what follows when it fails
ConcMemberParse(p) ==
  /\ stack[p].pc = "member_parse"
  /\ IF lyp_parse_value(stack[p].value_str, stack[p].stype.types[stack[p].t].base,
                        stack[p].stype.types[stack[p].t], TRUE).r = 0
     THEN ConcStep(p, [stack[p] EXCEPT !.pc = "done", !.ret = EXIT_SUCCESS], arg.ctx,
                   "member_parse")
     ELSE IF PathBearing(stack[p].stype.types[stack[p].t].base)
     THEN ConcStep(p, [stack[p] EXCEPT !.value_str = stack[p].content,
                         !.content = NoText, !.pc = "member",
                         !.t = lyp_get_next_union_type(stack[p].stype, stack[p].t)],
                   lydict_remove(arg.ctx, stack[p].value_str), "member_parse")
     ELSE ConcStep(p, [stack[p] EXCEPT !.pc = "member",
                         !.t = lyp_get_next_union_type(stack[p].stype, stack[p].t)],
                   arg.ctx, "member_parse")

NextConc ==
  \/ \E p \in Parses : ConcMove(p)
  \/ \E p \in Parses : ConcTransform(p)
  \/ \E p \in Parses : ConcRemove(p)
  \/ \E p \in Parses : ConcParse(p)
  \/ \E p \in Parses : ConcMember(p)
  \/ \E p \in Parses : ConcMemberParse(p)

SpecConc == InitConc /\ [][NextConc]_vars

(***************************************************************************)
(* The printers (src/src/printer_xml.c, src/src/printer_json.c) on their   *)
(* own: a data tree of the set below is printed in either encoding.        *)
(*                                                                         *)
(* The tree is a container of m1 with up to MaxSibs children, followed or  *)
(* not by a top-level identityref leaf.                                    *)
(***************************************************************************)
\* struct lyd_attr
lyd_attr(module, name, value) == [module |-> module, name |-> name, value |-> value]

\* a child of the container: its schema node, its attributes, its value and,
\* for an instance of the list, the value of its key leaf
Kid(schema, attr, value_str, value_type, key, value) ==
  [schema |-> schema, attr |-> attr, value_str |-> value_str,
   value_type |-> value_type, key |-> key, value |-> value]

Kids ==
  { Kid("ll", <<>>, [pfx |-> "", loc |-> "a"], LY_TYPE_STRING, NoText, <<>>),
    Kid("ll", <<lyd_attr("m2", "at", "2")>>, [pfx |-> "", loc |-> "b"], LY_TYPE_STRING,
        NoText, <<>>),
    Kid("ll", <<>>, NoText, LY_TYPE_STRING, NoText, <<>>),
    Kid("lf", <<lyd_attr("m1", "at", "1")>>, [pfx |-> "m1", loc |-> "id1"], LY_TYPE_IDENT,
        NoText, <<>>),
    Kid("lf", <<lyd_attr("m1", "at", "1")>>, [pfx |-> "z", loc |-> "id1"], LY_TYPE_STRING,
        NoText, <<>>),
    Kid("baz", <<>>, [pfx |-> "", loc |-> "a"], LY_TYPE_STRING, NoText, <<>>),
    Kid("lst", <<>>, NoText, LY_TYPE_DER, [pfx |-> "", loc |-> "a"], <<>>),
    Kid("lst", <<lyd_attr("m1", "at", "1")>>, NoText, LY_TYPE_DER, [pfx |-> "", loc |-> "b"],
        <<>>),
    Kid("ax", <<>>, NoText, LY_TYPE_DER, NoText, <<1>>) }

\* the top-level leaf after the container: none, or an identityref leaf
\* with or without an attribute
Tids == {<<>>, <<Kid("tid", <<lyd_attr("m1", "at", "1")>>, [pfx |-> "m1", loc |-> "id1"],
                    LY_TYPE_IDENT, NoText, <<>>)>>}

\* the node of a kid, linked under parent and after prev
SetKid(h, n, kid) ==
  [h EXCEPT ![n].attr = kid.attr, ![n].value_str = kid.value_str,
            ![n].value_type = kid.value_type, ![n].value = kid.value]

KeyOf(h, n, kid) ==
  IF kid.key = NoText THEN h
  ELSE SetKid(LinkNode(h, "k", n, NULL), Len(h) + 1,
              Kid("k", <<>>, kid.key, LY_TYPE_STRING, NoText, <<>>))

AddKid(h, kid, parent, prev) ==
  KeyOf(SetKid(LinkNode(h, kid.schema, parent, prev), Len(h) + 1, kid), Len(h) + 1, kid)

RECURSIVE AddKids(_, _, _, _, _)
AddKids(h, kids, i, parent, prev) ==
  IF i > Len(kids) THEN h
  ELSE AddKids(AddKid(h, kids[i], parent, prev), kids, i + 1, parent, Len(h) + 1)

DataTree(kids, tid) ==
  AddKids(AddKids(OneContainer, kids, 1, 1, NULL), tid, 1, NULL, 1)

DataTrees == {DataTree(kids, tid) : kids \in SeqsUpTo(Kids, MaxSibs), tid \in Tids}

(***************************************************************************)
(* The XML printer. An element of the output is a record: the name of its  *)
(* start tag, the default namespace declared on it ("" when none is), the  *)
(* xmlns:prefix declarations and the attributes in the order printed, the  *)
(* text, the child elements, the dump of an anyxml value and whether       *)
(* "(!error!)" was printed in place of the rest of the element.            *)
(***************************************************************************)
XE(node, name, xmlns, decl, attr, content, children, dump, error) ==
  [node |-> node, name |-> name, xmlns |-> xmlns, decl |-> decl, attr |-> attr,
   content |-> content, children |-> children, dump |-> dump, error |-> error]

ModuleOf(h, node) == lys_node[h[node].schema].module

\* nscmp: whether the namespaces of the modules of two nodes differ
nscmp(h, node1, node2) ==
  lys_module[ModuleOf(h, node1)].ns # lys_module[ModuleOf(h, node2)].ns

\* the default namespace a start tag declares
PrintNamespace(h, node) ==
  IF h[node].parent = NULL \/ nscmp(h, node, h[node].parent)
  THEN lys_module[ModuleOf(h, node)].ns
  ELSE ""

\* LY_TREE_DFS over data nodes, from start: the nodes in the order visited
RECURSIVE LY_TREE_DFS(_, _)
LY_TREE_DFS(h, start) ==
  IF start = NULL THEN <<>>
  ELSE <<start>>
       \o (IF lys_node[h[start].schema].nodetype \in {"LEAF", "LEAFLIST", "ANYXML"}
           THEN <<>> ELSE LY_TREE_DFS(h, h[start].child))
       \o LY_TREE_DFS(h, h[start].next)

\* the modules of a list of attributes are put at the head of mlist, a
\* module that is in the list already is not put again
RECURSIVE CollectAttrs(_, _, _)
CollectAttrs(mlist, attr, k) ==
  IF k > Len(attr) THEN mlist
  ELSE IF \E i \in 1..Len(mlist) : mlist[i] = attr[k].module
  THEN CollectAttrs(mlist, attr, k + 1)
  ELSE CollectAttrs(<<attr[k].module>> \o mlist, attr, k + 1)

RECURSIVE CollectNodes(_, _, _, _)
CollectNodes(mlist, h, nodes, i) ==
  IF i > Len(nodes) THEN mlist
  ELSE CollectNodes(CollectAttrs(mlist, h[nodes[i]].attr, 1), h, nodes, i + 1)

NsDecl(module) == [prefix |-> lys_module[module].prefix, ns |-> lys_module[module].ns]

\* xml_print_ns: a declaration for each module of mlist
PrintMlist(mlist) == [i \in 1..Len(mlist) |-> NsDecl(mlist[i])]

xml_print_ns(h, node) ==
  PrintMlist(
    IF lys_node[h[node].schema].nodetype \in {"LEAF", "LEAFLIST"}
    THEN CollectAttrs(<<>>, h[node].attr, 1)
    ELSE CollectNodes(CollectAttrs(<<>>, h[node].attr, 1), h,
                      LY_TREE_DFS(h, h[node].child), 1))

\* transform_json2xml: the prefix of the text, a module name, is replaced by
\* the prefix of the module, and the prefix and the namespace of the module
\* are returned for the caller to declare; NoText is returned on failure
transform_json2xml(expr) ==
  IF expr = NoText THEN [xml_expr |-> NoText, prefs |-> <<>>]
  ELSE IF expr.pfx = "" THEN [xml_expr |-> expr, prefs |-> <<>>]
  ELSE IF expr.pfx \notin DOMAIN lys_module THEN [xml_expr |-> NoText, prefs |-> <<>>]
  ELSE [xml_expr |-> [pfx |-> lys_module[expr.pfx].prefix, loc |-> expr.loc],
        prefs |-> <<NsDecl(expr.pfx)>>]

\* the attributes of the filter element of NETCONF
rpc_filter(h, node) ==
  /\ lys_node[h[node].schema].name = "filter"
  /\ lys_module[ModuleOf(h, node)].name \in {"ietf-netconf", "notifications"}

XA(prefix, name, value, decl) ==
  [prefix |-> prefix, name |-> name, value |-> value, decl |-> decl]

PrintSelect(attr, j2x) == XA("", attr.name, j2x.xml_expr.loc, j2x.prefs)

PrintAttr(h, node, attr) ==
  IF rpc_filter(h, node) /\ attr.name = "type"
  THEN XA("", attr.name, attr.value, <<>>)
  ELSE IF rpc_filter(h, node) /\ attr.name = "select"
  THEN PrintSelect(attr, transform_json2xml([pfx |-> "", loc |-> attr.value]))
  ELSE XA(lys_module[attr.module].prefix, attr.name, attr.value, <<>>)

xml_print_attrs(h, node) ==
  [k \in 1..Len(h[node].attr) |-> PrintAttr(h, node, h[node].attr[k])]

\* the declarations after the element name
PrintDecl(h, node, toplevel) == IF toplevel THEN xml_print_ns(h, node) ELSE <<>>

\* the built-in types whose value is printed as it is stored
PrintedAsStored == {LY_TYPE_STRING, LY_TYPE_ENUM, LY_TYPE_BOOL, LY_TYPE_INT8}

\* the leaf whose value is an identityref or an instance-identifier
PrintPath(h, node, toplevel, j2x) ==
  IF j2x.xml_expr = NoText
  THEN XE(node, lys_node[h[node].schema].name, PrintNamespace(h, node),
          PrintDecl(h, node, toplevel), xml_print_attrs(h, node), NoText, <<>>, <<>>,
          TRUE)
  ELSE XE(node, lys_node[h[node].schema].name, PrintNamespace(h, node),
          PrintDecl(h, node, toplevel) \o j2x.prefs, xml_print_attrs(h, node),
          j2x.xml_expr, <<>>, <<>>, FALSE)

PrintText(h, node, toplevel, text, error) ==
  XE(node, lys_node[h[node].schema].name, PrintNamespace(h, node),
     PrintDecl(h, node, toplevel), xml_print_attrs(h, node), text, <<>>, <<>>, error)

xml_print_leaf(h, node, toplevel) ==
  CASE (h[node].value_type % (LY_DATA_TYPE_MASK + 1)) \in PrintedAsStored ->
         PrintText(h, node, toplevel, h[node].value_str, FALSE)
    [] (h[node].value_type % (LY_DATA_TYPE_MASK + 1)) \in {LY_TYPE_IDENT, LY_TYPE_INST} ->
         PrintPath(h, node, toplevel, transform_json2xml(h[node].value_str))
    [] (h[node].value_type % (LY_DATA_TYPE_MASK + 1)) = LY_TYPE_LEAFREF ->
         PrintText(h, node, toplevel, h[h[node].leafref].value_str, FALSE)
    [] (h[node].value_type % (LY_DATA_TYPE_MASK + 1)) = LY_TYPE_EMPTY ->
         PrintText(h, node, toplevel, NoText, FALSE)
    [] OTHER -> PrintText(h, node, toplevel, NoText, TRUE)

RECURSIVE xml_print_node(_, _, _)
\* LY_TREE_FOR(node->child, child) xml_print_node(out, level, child, 0)
RECURSIVE PrintChildren(_, _)
PrintChildren(h, child) ==
  IF child = NULL THEN <<>>
  ELSE <<xml_print_node(h, child, FALSE)>> \o PrintChildren(h, h[child].next)

xml_print_container(h, node, toplevel) ==
  XE(node, lys_node[h[node].schema].name, PrintNamespace(h, node),
     PrintDecl(h, node, toplevel), xml_print_attrs(h, node), NoText,
     PrintChildren(h, h[node].child), <<>>, FALSE)

xml_print_list(h, node, is_list, toplevel) ==
  IF is_list THEN xml_print_container(h, node, toplevel)
  ELSE xml_print_leaf(h, node, toplevel)

\* lyxml_dump of axml->value: the elements of the value
xml_print_anyxml(h, node, toplevel) ==
  XE(node, lys_node[h[node].schema].name, PrintNamespace(h, node),
     PrintDecl(h, node, toplevel), xml_print_attrs(h, node), NoText, <<>>,
     h[node].value, FALSE)

xml_print_node(h, node, toplevel) ==
  CASE lys_node[h[node].schema].nodetype \in {"NOTIF", "RPC", "CONTAINER"} ->
         xml_print_container(h, node, toplevel)
    [] lys_node[h[node].schema].nodetype = "LEAF" -> xml_print_leaf(h, node, toplevel)
    [] lys_node[h[node].schema].nodetype = "LEAFLIST" ->
         xml_print_list(h, node, FALSE, toplevel)
    [] lys_node[h[node].schema].nodetype = "LIST" ->
         xml_print_list(h, node, TRUE, toplevel)
    [] lys_node[h[node].schema].nodetype = "ANYXML" ->
         xml_print_anyxml(h, node, toplevel)
    [] OTHER -> PrintText(h, node, toplevel, NoText, TRUE)

\* LY_TREE_FOR(root, node) xml_print_node(out, level, node, 1)
RECURSIVE PrintRoots(_, _)
PrintRoots(h, node) ==
  IF node = NULL THEN <<>>
  ELSE <<xml_print_node(h, node, TRUE)>> \o PrintRoots(h, h[node].next)

xml_print_data(h, root) == [ret |-> EXIT_SUCCESS, doc |-> PrintRoots(h, root)]

(***************************************************************************)
(* The JSON printer. The output is the sequence of its tokens, white space *)
(* left out; a token is a record of its kind and its characters: a member  *)
(* name ("name", or "@name" for the member that holds attributes), a       *)
(* quoted string, an unquoted value, or a punctuation mark.                *)
(***************************************************************************)
Tok(k, s) == [k |-> k, s |-> s]
Punct(s) == <<Tok(s, s)>>

\* the characters of a text
Str(text) == IF text.pfx = "" THEN text.loc ELSE text.pfx \o ":" \o text.loc

\* only a top-level node has its member name qualified
QualifiedTopOnly(h, node) == h[node].parent = NULL

\* the member name of a node: "module:name" or "name"
Qualified(h, node) == h[node].parent = NULL \/ nscmp(h, node, h[node].parent)

MemberName(h, node, at) ==
  IF Qualified(h, node)
  THEN Tok(at \o "name", at \o lys_module[ModuleOf(h, node)].name \o ":"
                         \o lys_node[h[node].schema].name)
  ELSE Tok(at \o "name", at \o lys_node[h[node].schema].name)

RECURSIVE PrintAttrs(_, _, _)
PrintAttrs(node_module, attr, k) ==
  IF k > Len(attr) THEN <<>>
  ELSE <<Tok("name", IF attr[k].module # node_module
                     THEN attr[k].module \o ":" \o attr[k].name
                     ELSE attr[k].name),
         Tok("string", attr[k].value)>>
       \o (IF k < Len(attr) THEN Punct(",") ELSE <<>>)
       \o PrintAttrs(node_module, attr, k + 1)

json_print_attrs(h, node) == PrintAttrs(ModuleOf(h, node), h[node].attr, 1)

\* the value of a leaf, the value of the target for a leafref
RECURSIVE PrintValue(_, _)
PrintValue(h, node) ==
  CASE (h[node].value_type % (LY_DATA_TYPE_MASK + 1))
         \in {LY_TYPE_STRING, LY_TYPE_ENUM, LY_TYPE_IDENT, LY_TYPE_INST} ->
         <<Tok("string", Str(h[node].value_str))>>
    [] (h[node].value_type % (LY_DATA_TYPE_MASK + 1)) \in {LY_TYPE_BOOL, LY_TYPE_INT8} ->
         IF h[node].value_str = NoText THEN Punct("null")
         ELSE <<Tok("raw", Str(h[node].value_str))>>
    [] (h[node].value_type % (LY_DATA_TYPE_MASK + 1)) = LY_TYPE_LEAFREF ->
         PrintValue(h, h[node].leafref)
    [] (h[node].value_type % (LY_DATA_TYPE_MASK + 1)) = LY_TYPE_EMPTY ->
         Punct("[") \o Punct("null") \o Punct("]")
    [] OTHER -> <<Tok("string", "(!error!)")>>

\* the attributes of a leaf or of an anyxml, printed as a sibling member
PrintAttrMember(h, node) ==
  IF h[node].attr = <<>> THEN <<>>
  ELSE Punct(",") \o <<MemberName(h, node, "@")>> \o Punct("{")
       \o json_print_attrs(h, node) \o Punct("}")

json_print_leaf(h, node, onlyvalue) ==
  IF onlyvalue THEN PrintValue(h, node)
  ELSE <<MemberName(h, node, "")>> \o PrintValue(h, node) \o PrintAttrMember(h, node)

RECURSIVE json_print_nodes(_, _)

\* the member "@" of the object of a container or of a list instance, with
\* the attributes of node attrs_of
PrintAt(h, node, attrs_of) ==
  IF h[node].attr = <<>> THEN <<>>
  ELSE <<Tok("@name", "@")>> \o Punct("{") \o json_print_attrs(h, attrs_of) \o Punct("}")
       \o (IF h[node].child # NULL THEN Punct(",") ELSE <<>>)

json_print_container(h, node) ==
  <<MemberName(h, node, "")>> \o Punct("{") \o PrintAt(h, node, node)
  \o json_print_nodes(h, h[node].child) \o Punct("}")

\* list->child of a node that is given as a struct lyd_node: the word of a
\* leaf or a leaf-list at the place of child is value_str, the word of an
\* anyxml its value
ChildIsNull(h, list) ==
  CASE lys_node[h[list].schema].nodetype \in {"LEAF", "LEAFLIST"} ->
         h[list].value_str = NoText
    [] lys_node[h[list].schema].nodetype = "ANYXML" -> h[list].value = <<>>
    [] OTHER -> h[list].child = NULL

\* for (list = list->next; list && list->schema != node->schema; list = list->next);
RECURSIVE NextInstance(_, _, _)
NextInstance(h, list, schema) ==
  IF list = NULL \/ h[list].schema = schema THEN list
  ELSE NextInstance(h, h[list].next, schema)

\* the instances of the schema node of node, from node on
RECURSIVE InstancesFrom(_, _, _)
InstancesFrom(h, list, schema) ==
  IF list = NULL THEN <<>>
  ELSE <<list>> \o InstancesFrom(h, NextInstance(h, h[list].next, schema), schema)

\* the loop that prints the instances, at instance k
RECURSIVE PrintInstances(_, _, _, _, _)
PrintInstances(h, node, is_list, lists, k) ==
  IF k > Len(lists) THEN <<>>
  ELSE (IF is_list
        THEN Punct("{") \o PrintAt(h, lists[k], node)
             \o json_print_nodes(h, h[lists[k]].child) \o Punct("}")
        ELSE json_print_leaf(h, lists[k], TRUE))
       \o (IF k < Len(lists) THEN Punct(",") ELSE <<>>)
       \o PrintInstances(h, node, is_list, lists, k + 1)

\* the loop that prints the attributes of the instances of a leaf-list
RECURSIVE PrintInstanceAttrs(_, _, _)
PrintInstanceAttrs(h, lists, k) ==
  IF k > Len(lists) THEN <<>>
  ELSE (IF h[lists[k]].attr # <<>>
        THEN Punct("{") \o json_print_attrs(h, lists[k]) \o Punct("}")
        ELSE Punct("null"))
       \o (IF k < Len(lists) THEN Punct(",") ELSE <<>>)
       \o PrintInstanceAttrs(h, lists, k + 1)

PrintAttrArray(h, node, is_list, lists) ==
  IF ~is_list /\ \E k \in 1..Len(lists) : h[lists[k]].attr # <<>>
  THEN Punct(",") \o <<MemberName(h, node, "@")>> \o Punct("[")
       \o PrintInstanceAttrs(h, lists, 1) \o Punct("]")
  ELSE <<>>

PrintArray(h, node, is_list, lists) ==
  Punct("[") \o PrintInstances(h, node, is_list, lists, 1) \o Punct("]")
  \o PrintAttrArray(h, node, is_list, lists)

json_print_leaf_list(h, node, is_list) ==
  <<MemberName(h, node, "")>>
  \o (IF ChildIsNull(h, node) THEN Punct("null")
      ELSE PrintArray(h, node, is_list, InstancesFrom(h, node, h[node].schema)))

json_print_anyxml(h, node) ==
  <<MemberName(h, node, "")>> \o Punct("[") \o Punct("null") \o Punct("]")
  \o PrintAttrMember(h, node)

\* for (iter = node->prev; iter->next; iter = iter->prev): whether the loop
\* is left at an instance of the schema node of node
RECURSIVE AlreadyPrinted(_, _, _)
AlreadyPrinted(h, node, iter) ==
  IF h[iter].next = NULL THEN FALSE
  ELSE IF iter # node /\ h[iter].schema = h[node].schema THEN TRUE
  ELSE AlreadyPrinted(h, node, h[iter].prev)

\* the comma before a member that is not the first node of its siblings
PreviousComma(h, node) == IF h[h[node].prev].next # NULL THEN Punct(",") ELSE <<>>

PrintNode(h, node) ==
  CASE lys_node[h[node].schema].nodetype \in {"RPC", "NOTIF", "CONTAINER"} ->
         PreviousComma(h, node) \o json_print_container(h, node)
    [] lys_node[h[node].schema].nodetype = "LEAF" ->
         PreviousComma(h, node) \o json_print_leaf(h, node, FALSE)
    [] lys_node[h[node].schema].nodetype \in {"LEAFLIST", "LIST"} ->
         IF AlreadyPrinted(h, node, h[node].prev) THEN <<>>
         ELSE PreviousComma(h, node)
              \o json_print_leaf_list(h, node, lys_node[h[node].schema].nodetype = "LIST")
    [] lys_node[h[node].schema].nodetype = "ANYXML" ->
         PreviousComma(h, node) \o json_print_anyxml(h, node)
    [] OTHER -> <<>>

json_print_nodes(h, root) ==
  IF root = NULL THEN <<>>
  ELSE PrintNode(h, root) \o json_print_nodes(h, h[root].next)

json_print_data(h, root) ==
  [ret |-> EXIT_SUCCESS, tokens |-> Punct("{") \o json_print_nodes(h, root) \o Punct("}")]

(***************************************************************************)
(* The parse of a printed document: the elements of the output are read    *)
(* as the children of a document element that declares nothing, and        *)
(* lyd_parse_xml is applied to it with no option set.                      *)
(***************************************************************************)
\* the declarations of a start tag are added to the ones in scope, a later
\* declaration of a prefix replacing an earlier one
RECURSIVE Declare(_, _, _)
Declare(xml, decl, k) ==
  IF k > Len(decl) THEN xml
  ELSE Declare([p \in DOMAIN xml \cup {decl[k].prefix} |->
                  IF p = decl[k].prefix THEN decl[k].ns ELSE xml[p]],
               decl, k + 1)

\* the text between the tags of a printed element
ReadContent(e) == IF e.error THEN [pfx |-> "", loc |-> "\"(!error!)\""] ELSE e.content

\* the element read from a printed start tag: its namespace is the default
\* namespace in scope, the namespace of an attribute the one its prefix is
\* bound to, and an attribute with no prefix has no namespace
ReadElem(e, ns, xml) ==
  Elem(e.name, ns,
       [k \in DOMAIN e.attr |->
          Attr("STD", lyxml_get_ns(xml, e.attr[k].prefix), e.attr[k].name,
               e.attr[k].value)])

\* what a call of xml_parse_data and the calls below it come to: whether
\* they all returned 0, the tree, the records added to unres and the node
\* the call handed back in *result (NULL for an element that is skipped)
RP(ok, h, recs, result) == [ok |-> ok, heap |-> h, unres |-> recs, result |-> result]

RECURSIVE ParseElems(_, _, _, _, _, _, _, _)
\* the tail of xml_parse_data: the attributes, then the children
ParseRest(r, e, el, ns, xml, n, schema) ==
  IF ~r.ok THEN r
  ELSE IF HaveChildren(schema)
  THEN [ParseElems([r.heap EXCEPT ![n].attr = CopyAttrs(el.attr, 1)], e.children, 1,
                   ns, xml, n, NULL, r.unres)
        EXCEPT !.result = n]
  ELSE RP(TRUE, [r.heap EXCEPT ![n].attr = CopyAttrs(el.attr, 1)], r.unres, n)

\* the value of a leaf
ParseValue(h, n, gv, recs) ==
  RP(gv.ret = EXIT_SUCCESS,
     [h EXCEPT ![n].value_str = gv.value_str, ![n].value_type = gv.value_type],
     IF gv.unres # "none" THEN Append(recs, [node |-> n, type |-> gv.unres]) ELSE recs,
     n)

\* the type specific processing
ParseContent(h, e, xml, n, schema, recs) ==
  IF lys_node[schema].nodetype \in {"LEAF", "LEAFLIST"}
  THEN ParseValue(h, n, xml_get_value(lys_node[schema].type, ReadContent(e), {}, xml),
                  recs)
  ELSE IF lys_node[schema].nodetype = "ANYXML"
  THEN RP(TRUE, [h EXCEPT ![n].value = e.dump], recs, n)
  ELSE RP(TRUE, h, recs, n)

\* xml_parse_data on the element of a printed start tag
ParseEntered(pe, e, el, ns, xml, recs) ==
  IF pe.result = NULL
  THEN RP(pe.ret = 0, pe.heap, recs, NULL)
  ELSE ParseRest(ParseContent(pe.heap, e, xml, pe.result, pe.schema, recs),
                 e, el, ns, xml, pe.result, pe.schema)

ParseElemIn(h, e, ns, xml, parent, prev, recs) ==
  ParseEntered(xml_parse_enter(h, ReadElem(e, ns, xml), NoSchema, parent, prev, {}),
               e, ReadElem(e, ns, xml), ns, xml, recs)

ParseElem(h, e, dflt, xml, parent, prev, recs) ==
  ParseElemIn(h, e, IF e.xmlns # "" THEN e.xmlns ELSE dflt, Declare(xml, e.decl, 1),
              parent, prev, recs)

\* the loop over the children of an element: a node that was created is the
\* previous sibling of the next one
ParseNext(r, elems, i, dflt, xml, parent, prev) ==
  IF ~r.ok THEN r
  ELSE ParseElems(r.heap, elems, i + 1, dflt, xml, parent,
                  IF r.result # NULL THEN r.result ELSE prev, r.unres)

ParseElems(h, elems, i, dflt, xml, parent, prev, recs) ==
  IF i > Len(elems) THEN RP(TRUE, h, recs, prev)
  ELSE ParseNext(ParseElem(h, elems[i], dflt, xml, parent, prev, recs),
                 elems, i, dflt, xml, parent, prev)

\* the end of lyd_parse_xml_: the resolve pass over the records of unres
ParseResolved(r, res) ==
  IF ~r.ok \/ r.result = NULL \/ res.r # 0
  THEN [result |-> NULL, heap |-> <<>>]
  ELSE [result |-> 1, heap |-> res.heap]

ParseEnd(r) ==
  ParseResolved(r, IF r.ok THEN resolve_unres_data(r.heap, r.unres, 1)
                   ELSE [r |-> 1, heap |-> r.heap])

\* lyd_parse_xml on the document element whose children are the elements
\* of doc: the first node of the tree and the tree, or NULL
lyd_parse_xml(doc) ==
  ParseEnd(ParseElems(<<>>, doc, 1, "", [p \in {} |-> ""], NULL, NULL, <<>>))

(***************************************************************************)
(* The printers as a state machine: the tree is printed once, in one of    *)
(* the encodings, and what the XML printer wrote is parsed.                *)
(***************************************************************************)
InitPrint ==
  /\ options = {}
  /\ rpc = NoSchema
  /\ heap \in DataTrees
  /\ stack = <<>>
  /\ top = Cleanup(Top("done", 1, NULL))
  /\ unres = <<>>
  /\ ly_errno = "LY_SUCCESS"
  /\ ly_vecode = "none"
  /\ nelems = 0
  /\ failed = FALSE
  /\ ev = [op |-> "init"]
  /\ arg = <<>>
  /\ out = <<>>

PrintXml ==
  /\ out = <<>>
  /\ out' = <<xml_print_data(heap, top.result)>>
  /\ ev' = [op |-> "xml_print_data"]
  /\ UNCHANGED <<options, rpc, heap, stack, top, unres, ly_errno, ly_vecode, nelems,
                 failed, arg>>

PrintJson ==
  /\ out = <<>>
  /\ out' = <<json_print_data(heap, top.result)>>
  /\ ev' = [op |-> "json_print_data"]
  /\ UNCHANGED <<options, rpc, heap, stack, top, unres, ly_errno, ly_vecode, nelems,
                 failed, arg>>

\* the document that was printed is parsed
ParseXml ==
  /\ ev.op = "xml_print_data"
  /\ out' = <<lyd_parse_xml(out[1].doc)>>
  /\ ev' = [op |-> "lyd_parse_xml", doc |-> out[1].doc]
  /\ UNCHANGED <<options, rpc, heap, stack, top, unres, ly_errno, ly_vecode, nelems,
                 failed, arg>>

NextPrint == PrintXml \/ PrintJson \/ ParseXml

SpecPrint == InitPrint /\ [][NextPrint]_vars

(***************************************************************************)
(* The XML printer on trees that hold a leaf it cannot print: the leaf lf  *)
(* of a filter that selects, which has the union of its schema node as     *)
(* value_type and no value, or an identityref whose value names no module. *)
(***************************************************************************)
UnprintableKids ==
  { Kid("lf", <<>>, NoText, LY_TYPE_UNION, NoText, <<>>),
    Kid("lf", <<lyd_attr("m1", "at", "1")>>, [pfx |-> "nomod", loc |-> "id1"],
        LY_TYPE_IDENT, NoText, <<>>) }

InitUnprintable ==
  /\ options = {}
  /\ rpc = NoSchema
  /\ heap \in {DataTree(kids, tid) :
                 kids \in SeqsUpTo(Kids \cup UnprintableKids, MaxLeaves), tid \in Tids}
  /\ stack = <<>>
  /\ top = Cleanup(Top("done", 1, NULL))
  /\ unres = <<>>
  /\ ly_errno = "LY_SUCCESS"
  /\ ly_vecode = "none"
  /\ nelems = 0
  /\ failed = FALSE
  /\ ev = [op |-> "init"]
  /\ arg = <<>>
  /\ out = <<>>

NextUnprintable == PrintXml

SpecUnprintable == InitUnprintable /\ [][NextUnprintable]_vars

(***************************************************************************)
(* tree_print_model on a module on its own: arg.module is the module, its  *)
(* top-level statements in data and the top-level statements of each of    *)
(* its included submodules in inc. A statement is known by the list it is  *)
(* in (0 the module, i the i-th submodule) and its place there. The output *)
(* is the sequence of the lines that open a statement or a section; the    *)
(* lines of the statements below an rpc or a notification are left out.    *)
(***************************************************************************)
\* a top-level statement with its if-feature evaluated
TopNodes ==
  { [nodetype |-> "RPC", disabled |-> FALSE], [nodetype |-> "RPC", disabled |-> TRUE],
    [nodetype |-> "NOTIF", disabled |-> FALSE],
    [nodetype |-> "CONTAINER", disabled |-> FALSE] }

Line(kind, where, k) == [line |-> kind, where |-> where, k |-> k]

\* lys_is_disabled(node, 0)
lys_is_disabled(node) == node.disabled

\* tree_print_snode with the mask of tree_print_model: rpc and notification
\* are not in the mask
tree_print_snode(where, data, k) ==
  IF lys_is_disabled(data[k]) THEN <<>>
  ELSE IF data[k].nodetype = "CONTAINER" THEN <<Line("node", where, k)>>
  ELSE <<>>

tree_print_rpc(where, data, k) ==
  IF lys_is_disabled(data[k]) THEN <<>> ELSE <<Line("rpc", where, k)>>

tree_print_notif(where, data, k) ==
  IF lys_is_disabled(data[k]) THEN <<>> ELSE <<Line("notif", where, k)>>

\* LY_TREE_FOR(module->inc[i].submodule->data, node) tree_print_snode(...)
RECURSIVE PrintSubData(_, _, _)
PrintSubData(where, data, k) ==
  IF k > Len(data) THEN <<>>
  ELSE tree_print_snode(where, data, k) \o PrintSubData(where, data, k + 1)

RECURSIVE PrintIncluded(_, _)
PrintIncluded(inc, i) ==
  IF i > Len(inc) THEN <<>>
  ELSE PrintSubData(i, inc[i].data, 1) \o PrintIncluded(inc, i + 1)

\* the loop over module->data: have_rpcs and have_notifs are counted, the
\* other statements are printed
RECURSIVE PrintModuleData(_, _, _)
PrintModuleData(data, k, st) ==
  IF k > Len(data) THEN st
  ELSE PrintModuleData(data, k + 1,
         CASE data[k].nodetype = "RPC" -> [st EXCEPT !.have_rpcs = @ + 1]
           [] data[k].nodetype = "NOTIF" -> [st EXCEPT !.have_notifs = @ + 1]
           [] OTHER -> [st EXCEPT !.out = @ \o tree_print_snode(0, data, k)])

PrintOp(nodetype, where, data, k) ==
  IF nodetype = "RPC" THEN tree_print_rpc(where, data, k)
  ELSE tree_print_notif(where, data, k)

\* LY_TREE_FOR(data, node) { if (!have) break; if (node->nodetype == type)
\* { print; have--; } }: st is the output and the counter
RECURSIVE PrintOps(_, _, _, _, _)
PrintOps(nodetype, where, data, k, st) ==
  IF k > Len(data) \/ st.have = 0 THEN st
  ELSE PrintOps(nodetype, where, data, k + 1,
         IF data[k].nodetype = nodetype
         THEN [out |-> st.out \o PrintOp(nodetype, where, data, k), have |-> st.have - 1]
         ELSE st)

RECURSIVE PrintIncludedOps(_, _, _, _)
PrintIncludedOps(nodetype, inc, i, st) ==
  IF i > Len(inc) THEN st
  ELSE PrintIncludedOps(nodetype, inc, i + 1, PrintOps(nodetype, i, inc[i].data, 1, st))

\* a section: nothing when the counter is 0, else the header, the
\* statements of the submodules and the statements of the module
PrintSection(nodetype, header, module, have) ==
  IF have = 0 THEN <<>>
  ELSE PrintOps(nodetype, 0, module.data, 1,
         PrintIncludedOps(nodetype, module.inc, 1,
           [out |-> <<Line(header, 0, 0)>>, have |-> have])).out

PrintSections(module, st) ==
  st.out \o PrintSection("RPC", "rpcs:", module, st.have_rpcs)
  \o PrintSection("NOTIF", "notifications:", module, st.have_notifs)

tree_print_model(module) ==
  PrintSections(module,
    PrintModuleData(module.data, 1,
      [out |-> <<Line("module:", 0, 0)>> \o PrintIncluded(module.inc, 1),
       have_rpcs |-> 0, have_notifs |-> 0]))

InitTree ==
  /\ options = {}
  /\ rpc = NoSchema
  /\ Start
  /\ arg \in [module : [data : SeqsUpTo(TopNodes, MaxData),
                        inc : SeqsUpTo([data : SeqsUpTo(TopNodes, MaxData)], MaxInc)]]
  /\ out = <<>>

TreePrint ==
  /\ out = <<>>
  /\ out' = <<tree_print_model(arg.module)>>
  /\ UNCHANGED <<options, rpc, heap, stack, top, unres, ly_errno, ly_vecode, nelems,
                 failed, ev, arg>>

NextTree == TreePrint

SpecTree == InitTree /\ [][NextTree]_vars

(***************************************************************************)
(* The properties.                                                         *)
(***************************************************************************)
Alive == {a \in DOMAIN heap : heap[a].alive}

Returned == top.pc = "done" /\ top.result # NULL

\* the first node of a list of siblings is the one whose prev is the last
\* node of the list, the node without a next
IsFirst(n) == heap[n].prev # NULL /\ heap[heap[n].prev].next = NULL

LinksOK(n) ==
  /\ heap[n].prev \in Alive
  /\ heap[heap[n].prev].parent = heap[n].parent
  /\ heap[n].next # NULL =>
       /\ heap[n].next \in Alive
       /\ heap[heap[n].next].prev = n
  /\ heap[n].child # NULL =>
       /\ heap[n].child \in Alive
       /\ heap[heap[n].child].parent = n
       /\ IsFirst(heap[n].child)
  /\ heap[n].parent # NULL =>
       /\ heap[n].parent \in Alive
       /\ heap[heap[n].parent].child # NULL
  /\ heap[n].parent = NULL /\ Returned => IsFirst(top.result)

OneRing(m, n) ==
  heap[m].parent = heap[n].parent /\ IsFirst(m) /\ heap[n].next = NULL
    => heap[m].prev = n /\ (IsFirst(n) => m = n)

\* C1: in the tree the parser builds and returns, whatever elements were
\* accepted, skipped or discarded on the way, no node has a NULL prev, the
\* prev of the first sibling is the last sibling, the next of the last
\* sibling is NULL, n.next.prev = n for every node that has a next, and the
\* child of a parent is the first of its children.
C1_SiblingRing ==
  /\ \A n \in Alive : LinksOK(n)
  /\ \A m \in Alive : \A n \in Alive : OneRing(m, n)

\* a returned tree of two top-level nodes between which a node was discarded
C1_Witness ==
  /\ Returned
  /\ \E a \in Alive : \E b \in Alive :
       /\ a + 1 < b /\ ~heap[a + 1].alive
       /\ top.result = a /\ heap[a].next = b /\ heap[a].prev = b
       /\ heap[b].next = NULL /\ heap[b].parent = NULL

\* C2: the entry point returns a complete tree or NULL: once a call of
\* xml_parse_data at any depth or the resolve pass has failed, nothing is
\* done but freeing, and the function returns NULL with every node built
\* so far freed.
C2_NoPartialTree ==
  failed =>
    \/ top.pc = "done" /\ top.result = NULL /\ Alive = {}
    \/ top.pc = "loop" /\ stack # <<>> /\ Cur.pc = "error"

\* a child of the second top-level element has failed and the function has
\* returned NULL
C2_Witness ==
  /\ failed /\ top.pc = "done" /\ top.result = NULL
  /\ ev.op = "error" /\ ev.node = 2
  /\ Len(heap) = 3

\* C3: when lyv_data_content returns non-zero with ly_errno set, the element
\* parse fails: the node is freed, the caller gets -1 and the whole parse
\* fails. When it returns non-zero with ly_errno unset, the node is freed
\* and no node links to it, ly_errno stays unset, the caller gets 0 with no
\* node and goes on with the next sibling element.
C3_ContentHook ==
  ev.op = "content" =>
    /\ ev.res = "error" =>
         /\ failed /\ ly_errno = "LY_EVALID"
         /\ ev.node \notin Alive
         /\ IF stack = <<>> THEN top.pc = "done" /\ top.result = NULL
            ELSE Cur.pc = "error"
    /\ ev.res = "clear" =>
         /\ ~failed /\ ly_errno = "LY_SUCCESS"
         /\ ev.node \notin Alive
         /\ \A a \in Alive : /\ heap[a].next # ev.node
                             /\ heap[a].prev # ev.node
                             /\ heap[a].child # ev.node
         /\ IF stack = <<>>
            THEN top.pc = "loop" /\ top.result # ev.node /\ top.last # ev.node
            ELSE Cur.pc = "children" /\ Cur.dlast # ev.node

\* the second child of a container is discarded: its sibling stays
C3_Witness ==
  /\ ev.op = "content" /\ ev.res = "clear"
  /\ stack # <<>> /\ Cur.pc = "children" /\ Cur.dlast # NULL
  /\ heap[Cur.dlast].alive /\ heap[Cur.dlast].next = NULL
  /\ ev.node = Cur.dlast + 1

OwnedNs(ns) == ly_ctx_get_module_by_ns(ns) # ""

\* C4: an element with a namespace that resolves to no schema node is a hard
\* failure with LYE_INELEM exactly when the options it is parsed with hold
\* STRICT or a loaded module has its namespace; otherwise the element is
\* skipped: the call returns 0 with no node, the tree and the error flag
\* are as they were.
C4_UnknownElement ==
  [][ ev'.op = "enter" /\ ev'.schema = NoSchema /\ ev'.xml.ns # "" =>
        IF "STRICT" \in ev'.options \/ OwnedNs(ev'.xml.ns)
        THEN /\ ev'.ret = -1 /\ ev'.result = NULL
             /\ ly_vecode' = "LYE_INELEM" /\ ly_errno' = "LY_EVALID"
             /\ failed'
        ELSE /\ ev'.ret = 0 /\ ev'.result = NULL
             /\ ly_vecode' = ly_vecode /\ ly_errno' = ly_errno
             /\ heap' = heap /\ ~failed' ]_vars

\* an element of a namespace of no module is skipped below a container that
\* has a child already
C4_Witness ==
  /\ ev.op = "enter" /\ ev.schema = NoSchema /\ ev.xml.ns = "urn:x"
  /\ ev.ret = 0 /\ ev.parent # NULL
  /\ stack # <<>> /\ Cur.pc = "children" /\ Cur.dlast # NULL

\* the document had one element, which was skipped
OneSkipped ==
  /\ top.pc = "done" /\ options = {} /\ rpc = NoSchema
  /\ nelems = 1 /\ heap = <<>> /\ ~failed

\* C5: with options = 0 and a document whose only element is a root element
\* of a namespace of no loaded module, the parse returns NULL, and ly_errno
\* is LY_EVALID: the element is skipped without an error, and the entry
\* point logs that no model was found for the data.
C5_LaxRootSkipped == OneSkipped => top.result = NULL /\ ly_errno = "LY_EVALID"

C5_Witness == OneSkipped /\ ev.op = "end" /\ top.result = NULL

\* C5 as stated: the parse returns an empty tree and ly_errno is unset
C5_Original == OneSkipped => top.result = NULL /\ ly_errno = "LY_SUCCESS"

IsLeaf(n) == lys_node[heap[n].schema].nodetype \in {"LEAF", "LEAFLIST"}

\* C6: in a tree returned by a parse with resolution enabled, the value_type
\* of every leaf and leaf-list node is a concrete base type: not UNION, not
\* DER, and without the unresolved flags.
C6_ConcreteValueType ==
  Returned /\ Resolving(options) =>
    \A n \in Alive :
      IsLeaf(n) =>
        /\ heap[n].value_type # LY_TYPE_UNION
        /\ heap[n].value_type # LY_TYPE_DER
        /\ heap[n].value_type <= LY_DATA_TYPE_MASK

\* a returned tree with a leaf of a union type whose value is an identity
C6_Witness ==
  /\ Returned /\ Resolving(options)
  /\ \E n \in Alive : /\ lys_node[heap[n].schema].type.base = LY_TYPE_UNION
                      /\ heap[n].value_type = LY_TYPE_IDENT

RECURSIVE BelowOperation(_, _)
BelowOperation(n, fuel) ==
  /\ n # NULL /\ fuel > 0
  /\ \/ lys_node[heap[n].schema].nodetype \in {"RPC", "NOTIF"}
     \/ BelowOperation(heap[n].parent, fuel - 1)

NoResolveMode == options \cap {"FILTER", "EDIT", "GET", "GETCONFIG"} # {}

\* C7: when the options of the entry point hold FILTER, EDIT, GET or
\* GETCONFIG, every leaf value that is not below an rpc or notification
\* node is decoded with resolve false, at every depth; the children of an
\* rpc or notification node are parsed with options 0, so the leaf values
\* below one are decoded with resolve true.
C7_NoResolveModes ==
  ev.op = "value" /\ NoResolveMode =>
    ev.resolve = BelowOperation(ev.parent, Len(heap))

\* a leaf below a container is decoded in FILTER mode
C7_Witness ==
  /\ ev.op = "value" /\ options = {"FILTER"} /\ ev.content # NoText
  /\ ev.parent # NULL /\ ~BelowOperation(ev.parent, Len(heap))
  /\ ~ev.resolve /\ ev.ret = EXIT_SUCCESS

\* C7 as stated: every leaf value is decoded with resolve false
C7_Original == ev.op = "value" /\ NoResolveMode => ~ev.resolve

\* whether a member type of a union takes the text of the element: the
\* text itself, or for an identityref or an instance-identifier the text
\* translated to the JSON form
Accepts(type, v) ==
  IF type.base \in {LY_TYPE_IDENT, LY_TYPE_INST}
  THEN transform_xml2json(v, DocNs) # NoText /\ ValueOfType(type, transform_xml2json(v, DocNs))
  ELSE ValueOfType(type, v)

Accepting(stype, v) == {k \in DOMAIN stype.types : Accepts(stype.types[k], v)}

Winner(stype, v) == CHOOSE k \in Accepting(stype, v) : \A j \in Accepting(stype, v) : k <= j

NoResolve(opts) == opts \cap {"FILTER", "EDIT", "GET", "GETCONFIG"} # {}

\* the value type an accepting member type leaves: its base, flagged
\* unresolved when not resolving, with the base of the target for a leafref
Stored(type, opts) ==
  IF ~NoResolve(opts) THEN type.base
  ELSE IF type.base = LY_TYPE_LEAFREF
  THEN LeafrefTargetType(type).base + LY_TYPE_LEAFREF_UNRES
  ELSE IF type.base = LY_TYPE_INST THEN LY_TYPE_INST + LY_TYPE_INST_UNRES
  ELSE type.base

\* the element of a filter with no content: no member type is tried
Selection == "FILTER" \in arg.options /\ arg.content = NoText

UnionDecoded == out # <<>> /\ arg.stype.base = LY_TYPE_UNION

\* C8: decoding a text v against a union succeeds exactly when a member type
\* accepts v, and value_type is then the base of the first member type in
\* declaration order that accepts v (with resolution disabled: flagged
\* unresolved for an instance-identifier, and the base of the target flagged
\* unresolved for a leafref); when no member accepts v the decode fails with
\* LYE_INVAL. The exception is an element with no content in FILTER mode:
\* the decode succeeds, no member type is tried and value_type stays UNION.
C8_UnionFirstAccepting ==
  UnionDecoded =>
    IF Selection
    THEN out[1].ret = EXIT_SUCCESS /\ out[1].value_type = LY_TYPE_UNION
    ELSE IF Accepting(arg.stype, arg.content) = {}
    THEN out[1].ret = EXIT_FAILURE /\ out[1].vecode = "LYE_INVAL"
    ELSE /\ out[1].ret = EXIT_SUCCESS
         /\ out[1].value_type =
              Stored(arg.stype.types[Winner(arg.stype, arg.content)], arg.options)

\* both member types accept the text and the first one is taken, with
\* resolution enabled
C8_Witness ==
  /\ UnionDecoded /\ arg.options = {}
  /\ arg.stype.types = <<TypeOf(LY_TYPE_INT8), TypeOf(LY_TYPE_STRING)>>
  /\ Accepting(arg.stype, arg.content) = {1, 2}
  /\ out[1].ret = EXIT_SUCCESS /\ out[1].value_type = LY_TYPE_INT8

\* C8 as stated: under any options, value_type is the base of the first
\* accepting member type, and the decode fails when no member type accepts
C8_Original ==
  UnionDecoded =>
    IF Accepting(arg.stype, arg.content) = {}
    THEN out[1].ret = EXIT_FAILURE /\ out[1].vecode = "LYE_INVAL"
    ELSE /\ out[1].ret = EXIT_SUCCESS
         /\ out[1].value_type = arg.stype.types[Winner(arg.stype, arg.content)].base

\* C9: in the decoding of a union, a member type that is an identityref or
\* an instance-identifier and whose translation to JSON fails is skipped and
\* the value does not fail for it; after a successful decode value_str is
\* the JSON translation of the text when the member type that took it is an
\* identityref or an instance-identifier, and the text of the element as it
\* was otherwise, also when earlier member types were translated and
\* rejected.
C9_UnionValueStr ==
  UnionDecoded =>
    /\ Accepting(arg.stype, arg.content) # {} => out[1].ret = EXIT_SUCCESS
    /\ out[1].ret = EXIT_SUCCESS =>
         out[1].value_str =
           IF /\ ~Selection
              /\ arg.stype.types[Winner(arg.stype, arg.content)].base
                   \in {LY_TYPE_IDENT, LY_TYPE_INST}
           THEN transform_xml2json(arg.content, DocNs)
           ELSE arg.content

\* the identityref member is translated and rejected, the string member
\* takes the text as it was
C9_Witness ==
  /\ UnionDecoded /\ ~Selection
  /\ arg.stype.types = <<TypeOf(LY_TYPE_IDENT), TypeOf(LY_TYPE_STRING)>>
  /\ arg.content.pfx = "p"
  /\ transform_xml2json(arg.content, DocNs) # NoText
  /\ transform_xml2json(arg.content, DocNs) # arg.content
  /\ out[1].ret = EXIT_SUCCESS /\ out[1].value_type = LY_TYPE_STRING
  /\ out[1].value_str = arg.content

\* the insert and the value attributes of the element: the attributes of
\* the YANG namespace with the name
YangAttrs(attr, name) ==
  {k \in DOMAIN attr :
     attr[k].type = "STD" /\ attr[k].ns = LY_NSYANG /\ attr[k].name = name}

OneInsert(attr, ins, values) ==
  Cardinality(ins) = 1 /\ \A k \in ins : attr[k].value \in values

EditAccepts(attr, ins, val, userordered) ==
  \/ ins = {} /\ val = {}
  \/ userordered /\ OneInsert(attr, ins, {"first", "last"}) /\ val = {}
  \/ userordered /\ OneInsert(attr, ins, {"before", "after"}) /\ Cardinality(val) = 1

EditChecked == out # <<>> /\ "EDIT" \in arg.options

\* C10: when the element is parsed with EDIT, whatever the order of its
\* attributes, a node is created exactly when (a) it has no insert and no
\* value attribute of the YANG namespace, or (b) its schema node is ordered
\* by user and it has one insert attribute, first or last, and no value
\* attribute, or (c) its schema node is ordered by user and it has one
\* insert attribute, before or after, and one value attribute; in every
\* other case the call returns -1 and no node is created.
C10_InsertCheck ==
  EditChecked =>
    IF EditAccepts(arg.xml.attr, YangAttrs(arg.xml.attr, "insert"),
                   YangAttrs(arg.xml.attr, "value"),
                   lys_node[out[1].schema].userordered)
    THEN out[1].ret = 0 /\ out[1].result # NULL /\ out[1].heap[out[1].result].alive
    ELSE /\ out[1].ret = -1 /\ out[1].result = NULL
         /\ out[1].heap = OneContainer
         /\ out[1].errno = "LY_EVALID"

\* the value attribute comes before the insert attribute it belongs to
C10_Witness ==
  /\ EditChecked /\ arg.xml.name = "ll"
  /\ arg.xml.attr = <<YangAttr("value", "a"), Attr("STD", "urn:m1", "insert", "first"),
                      YangAttr("insert", "before")>>
  /\ out[1].ret = 0 /\ out[1].result # NULL

\* the element carries insert="before" and value=v
InsertBefore(xml, v) ==
  /\ \E k \in DOMAIN xml.attr : xml.attr[k] = YangAttr("insert", "before")
  /\ \E k \in DOMAIN xml.attr : xml.attr[k] = YangAttr("value", v)

\* the instances of the schema node of the new node that are its siblings
\* and have the value v
Instances(n, v) ==
  {a \in Alive : /\ a # n
                 /\ heap[a].parent = heap[n].parent
                 /\ heap[a].schema = heap[n].schema
                 /\ heap[a].value_str = [pfx |-> "", loc |-> v]}

\* an element with insert="before" and value="a" has been accepted in EDIT
\* mode, and a sibling instance with the value a was there
InsertedBefore ==
  /\ ev.op = "enter" /\ ev.result # NULL /\ "EDIT" \in ev.options
  /\ InsertBefore(ev.xml, "a")
  /\ Instances(ev.result, "a") # {}

\* C11: the node of an element is linked after the last sibling parsed
\* before it, whatever its insert and value attributes, which are only
\* checked: the siblings of a tree are in the order of their elements in
\* the document. The element x with value a followed by the element x with
\* value b, insert="before" and value="a" yields the order a, b.
C11_DocumentOrder ==
  /\ \A n \in Alive : heap[n].next # NULL => heap[n].next > n
  /\ InsertedBefore =>
       /\ heap[ev.result].next = NULL
       /\ \A a \in Instances(ev.result, "a") :
            /\ a < ev.result
            /\ heap[a].next # NULL
            /\ heap[a].next = ev.result \/ heap[a].next < ev.result

\* the instance with the value a is the sibling right before the new node
C11_Witness ==
  /\ InsertedBefore /\ options = {"EDIT"}
  /\ \E a \in Instances(ev.result, "a") :
       heap[a].next = ev.result /\ heap[ev.result].prev = a

\* C11 as stated: the new node is placed right before the instance that has
\* the value
C11_Original ==
  InsertedBefore => \E a \in Instances(ev.result, "a") : heap[ev.result].next = a

\* C12: after the type specific processing of an anyxml element that has k
\* XML children, outside FILTER mode, the value of the data node is the list
\* of all k children in their order, the node has no child, and the element
\* is left with no children.
C12_AnyxmlPayload ==
  ev.op = "anyxml" =>
    /\ heap[ev.node].value = ev.children
    /\ heap[ev.node].child = NULL
    /\ ev.left = <<>>

\* an element of a printed document, with the default namespace and the
\* xmlns:prefix declarations its ancestors put it in the scope of
RECURSIVE Scoped(_, _, _)
Scoped(e, dflt, scope) ==
  {[e |-> e, dflt |-> dflt, scope |-> scope]}
  \cup UNION {Scoped(e.children[i], IF e.xmlns # "" THEN e.xmlns ELSE dflt,
                     scope \cup {e.decl[k] : k \in DOMAIN e.decl})
              : i \in DOMAIN e.children}

ScopedDoc(doc) == UNION {Scoped(doc[i], "", {}) : i \in DOMAIN doc}

\* the elements of the subtree of an element
RECURSIVE SubElems(_)
SubElems(e) == {e} \cup UNION {SubElems(e.children[i]) : i \in DOMAIN e.children}

\* the prefix is used by the name of an attribute of the element or by its
\* content, the value of an identityref or instance-identifier leaf
UsesPrefix(f, prefix) ==
  \/ \E k \in DOMAIN f.attr : f.attr[k].prefix = prefix
  \/ /\ (heap[f.node].value_type % (LY_DATA_TYPE_MASK + 1)) \in {LY_TYPE_IDENT, LY_TYPE_INST}
     /\ f.content.pfx = prefix

XmlPrinted == ev.op = "xml_print_data"

DefaultMinimal(x) ==
  /\ x.e.xmlns # "" <=>
       \/ heap[x.e.node].parent = NULL
       \/ ModuleOf(heap, x.e.node) # ModuleOf(heap, heap[x.e.node].parent)
  /\ x.e.xmlns # "" => x.e.xmlns # x.dflt

PrefixesUsed(x) ==
  \A k \in DOMAIN x.e.decl : \E f \in SubElems(x.e) : UsesPrefix(f, x.e.decl[k].prefix)

DeclaredOnce(x) ==
  \A k \in DOMAIN x.e.decl :
    /\ x.e.decl[k] \notin x.scope
    /\ \A j \in DOMAIN x.e.decl : j # k => x.e.decl[j].prefix # x.e.decl[k].prefix

\* C14: in the XML output of a data tree an element declares a default
\* namespace only when it is top-level or its module differs from its
\* parent's, never the default it is in the scope of; every xmlns:prefix
\* declaration is used by an attribute name or a path value in the subtree
\* of the element that declares it, and is not declared twice for the same
\* scope.
C14_MinimalNamespaces ==
  XmlPrinted =>
    \A x \in ScopedDoc(out[1].doc) :
      DefaultMinimal(x) /\ PrefixesUsed(x) /\ DeclaredOnce(x)

\* what the printer has of it: the default namespaces are minimal and every
\* prefix declared is used
C14_DefaultAndUsed ==
  XmlPrinted =>
    \A x \in ScopedDoc(out[1].doc) : DefaultMinimal(x) /\ PrefixesUsed(x)

\* the same prefix twice in one start tag
C14_OneTag ==
  XmlPrinted =>
    \A x \in ScopedDoc(out[1].doc) :
      \A k, j \in DOMAIN x.e.decl : j # k => x.e.decl[j].prefix # x.e.decl[k].prefix

JsonPrinted == ev.op = "json_print_data"

\* the nesting of token i: the brackets open before it
Depth(tokens, i) ==
  Cardinality({j \in 1..(i - 1) : tokens[j].k \in {"{", "["}})
  - Cardinality({j \in 1..(i - 1) : tokens[j].k \in {"}", "]"}})

\* the members of the object that token i is in, from token i on, in the
\* order printed, the members that hold attributes left out: the index of
\* the name of each
RECURSIVE MembersFrom(_, _, _)
MembersFrom(tokens, d, i) ==
  IF i > Len(tokens) \/ (tokens[i].k = "}" /\ Depth(tokens, i) = d) THEN <<>>
  ELSE (IF tokens[i].k = "name" /\ Depth(tokens, i) = d THEN <<i>> ELSE <<>>)
       \o MembersFrom(tokens, d, i + 1)

\* the children of a node, in their order
RECURSIVE Siblings(_, _)
Siblings(h, node) == IF node = NULL THEN <<>> ELSE <<node>> \o Siblings(h, h[node].next)

IsListInstance(h, n) == lys_node[h[n].schema].nodetype \in {"LIST", "LEAFLIST"}

\* the children that are a first instance of a list or a leaf-list, or a
\* node of another kind
FirstInstance(h, sibs, k) ==
  IsListInstance(h, sibs[k]) => \A j \in 1..(k - 1) : h[sibs[j]].schema # h[sibs[k]].schema

RECURSIVE FirstInstances(_, _, _)
FirstInstances(h, sibs, k) ==
  IF k > Len(sibs) THEN <<>>
  ELSE (IF FirstInstance(h, sibs, k) THEN <<sibs[k]>> ELSE <<>>)
       \o FirstInstances(h, sibs, k + 1)

\* the members of the object of the container, the first member printed
ContMembers(tokens) == MembersFrom(tokens, 2, 4)

ValueEnd == {"string", "raw", "null", "}", "]"}
ValueBegin == {"name", "@name", "string", "raw", "null", "{", "["}

\* a comma stands between every two members or elements, and nowhere else
OneComma(tokens) ==
  \A i \in 1..(Len(tokens) - 1) :
    /\ tokens[i].k \in ValueEnd => tokens[i + 1].k \notin ValueBegin
    /\ tokens[i].k = "," =>
         i > 1 /\ tokens[i - 1].k \in ValueEnd /\ tokens[i + 1].k \in ValueBegin

\* the members of the object of the container are those of the children
\* that are first instances, in their order
OneMemberEach(tokens, members, firsts) ==
  /\ Len(members) = Len(firsts)
  /\ \A k \in DOMAIN members : tokens[members[k]] = MemberName(heap, firsts[k], "")
  /\ \A k, j \in DOMAIN members :
       k # j /\ IsListInstance(heap, firsts[k]) => tokens[members[k]] # tokens[members[j]]

ArrayMembers(tokens, members, firsts) ==
  \A k \in DOMAIN members :
    k \in DOMAIN firsts /\ IsListInstance(heap, firsts[k]) => tokens[members[k] + 1].k = "["

\* C15: in the JSON output, each list or leaf-list schema node that has
\* instances among the children of the container gets exactly one member,
\* an array, at the place of its first instance; later instances, adjacent
\* or not, get none, so no member name of a list is there twice; exactly one
\* comma separates consecutive members.
C15_OneArrayMember ==
  JsonPrinted =>
    /\ OneMemberEach(out[1].tokens, ContMembers(out[1].tokens),
                     FirstInstances(heap, Siblings(heap, heap[1].child), 1))
    /\ ArrayMembers(out[1].tokens, ContMembers(out[1].tokens),
                    FirstInstances(heap, Siblings(heap, heap[1].child), 1))
    /\ OneComma(out[1].tokens)

\* what the printer has of it: one member for each list, at the place of
\* the first instance, and the commas
C15_OneMember ==
  JsonPrinted =>
    /\ OneMemberEach(out[1].tokens, ContMembers(out[1].tokens),
                     FirstInstances(heap, Siblings(heap, heap[1].child), 1))
    /\ OneComma(out[1].tokens)

\* the member name the claim gives a node
ClaimedName(n) ==
  IF heap[n].parent = NULL \/ ModuleOf(heap, n) # ModuleOf(heap, heap[n].parent)
  THEN ModuleOf(heap, n) \o ":" \o lys_node[heap[n].schema].name
  ELSE lys_node[heap[n].schema].name

NamedAsClaimed(tokens, members, nodes) ==
  /\ Len(members) = Len(nodes)
  /\ \A k \in DOMAIN members : k \in DOMAIN nodes => tokens[members[k]].s = ClaimedName(nodes[k])

\* the top-level members, the first member printed
TopMembers(tokens) == MembersFrom(tokens, 1, 2)

Contains(tokens, sub) ==
  \E i \in 1..(Len(tokens) - Len(sub) + 1) : SubSeq(tokens, i, i + Len(sub) - 1) = sub

\* the entry of an instance in the array of attributes: its attribute
\* object, or null
AttrEntry(n) ==
  IF heap[n].attr = <<>> THEN Punct("null")
  ELSE Punct("{") \o json_print_attrs(heap, n) \o Punct("}")

RECURSIVE AttrEntries(_, _)
AttrEntries(lists, k) ==
  IF k > Len(lists) THEN <<>>
  ELSE AttrEntry(lists[k]) \o (IF k < Len(lists) THEN Punct(",") ELSE <<>>)
       \o AttrEntries(lists, k + 1)

\* the array of attributes parallel to the array of the instances of the
\* schema node of n
ParallelArray(n, lists) ==
  Punct("]") \o Punct(",") \o <<Tok("@name", "@" \o ClaimedName(n))>> \o Punct("[")
  \o AttrEntries(lists, 1) \o Punct("]")

\* the first instances, among the children of the container, of the lists
\* and leaf-lists that have an instance with attributes
WithAttributes ==
  {n \in DOMAIN heap :
     /\ heap[n].parent = 1 /\ IsListInstance(heap, n)
     /\ \A m \in DOMAIN heap :
          heap[m].parent = 1 /\ heap[m].schema = heap[n].schema => n <= m
     /\ \E m \in DOMAIN heap :
          heap[m].parent = 1 /\ heap[m].schema = heap[n].schema /\ heap[m].attr # <<>>}

\* C17: in the JSON output, when instances of a list or a leaf-list carry
\* attributes, the attributes are an array parallel to the array of the
\* values: one entry for each instance, in the order of the instances, the
\* object of the attributes of that instance or null when it has none.
C17_ParallelAttributes ==
  JsonPrinted =>
    \A n \in WithAttributes :
      Contains(out[1].tokens, ParallelArray(n, InstancesFrom(heap, n, heap[n].schema)))

\* the same for the leaf-lists whose first instance has a value
C17_LeafLists ==
  JsonPrinted =>
    \A n \in WithAttributes :
      heap[n].schema = "ll" /\ heap[n].value_str # NoText =>
        Contains(out[1].tokens, ParallelArray(n, InstancesFrom(heap, n, heap[n].schema)))

\* the object of a list instance holds the attributes of that instance
C17_ListInstanceAttributes ==
  JsonPrinted =>
    \A n \in DOMAIN heap :
      heap[n].schema = "lst" /\ heap[n].attr # <<>> =>
        Contains(out[1].tokens,
                 Punct("{") \o <<Tok("@name", "@")>> \o Punct("{")
                 \o json_print_attrs(heap, n) \o Punct("}"))

\* the nodes an element can be bound to, from start on: the siblings and,
\* in the place of a choice, a case, a uses, an input or an output, what
\* their children give; nothing for a grouping
RECURSIVE Candidates(_)
Candidates(start) ==
  IF start = NoSchema THEN <<>>
  ELSE (CASE lys_node[start].nodetype = "GROUPING" -> <<>>
          [] lys_node[start].nodetype \in Transparent -> Candidates(lys_node[start].child)
          [] OTHER -> <<start>>)
       \o Candidates(lys_node[start].next)

Matching(c) ==
  SelectSeq(c, LAMBDA s : /\ lys_node[s].name = arg.name
                          /\ lys_module[lys_node[s].module].ns = arg.ns)

FirstOrNone(c) == IF c = <<>> THEN NoSchema ELSE c[1]

\* C20: xml_data_search_schemanode returns the first node, in pre-order over
\* the siblings from start and through choice, case, uses, input and output
\* nodes only, that is none of these and not a grouping and has the name and
\* the module namespace of the element; it returns NULL when there is none.
C20_SearchPreOrder ==
  out # <<>> =>
    /\ out[1] = FirstOrNone(Matching(Candidates(arg.start)))
    /\ out[1] # NoSchema =>
         lys_node[out[1]].nodetype \notin Transparent \cup {"GROUPING"}

\* the leaf of the case of a choice is found from the first top-level node,
\* past a container and a grouping
C20_Witness ==
  /\ arg = [name |-> "tl", ns |-> "urn:m1", start |-> "cont"]
  /\ out = <<"tl">>

\* the leaf of a grouping is not found
C20_WitnessGrouping ==
  /\ arg = [name |-> "gl", ns |-> "urn:m1", start |-> "lf"]
  /\ out = <<NoSchema>>

\* C19: after the attributes of an element are copied, the name and the
\* value of each of them, interned strings taken from the XML input, are
\* held by exactly one holder: the XML attribute or a data attribute of the
\* node; an attribute skipped because no module has its namespace keeps its
\* strings in the XML attribute.
C19_AttributeStringsOwned ==
  ev.op = "attrs" =>
    /\ \A k \in DOMAIN ev.holders : ev.holders[k] \in {"xml", "data"}
    /\ Cardinality({k \in DOMAIN ev.holders : ev.holders[k] = "data"})
         = Len(heap[ev.node].attr)
    /\ \A k \in DOMAIN ev.xml.attr :
         ly_ctx_get_module_by_ns(ev.xml.attr[k].ns) = "" => ev.holders[k] = "xml"

\* the strings that are moved to a data attribute are held by it
C19_CopiedOwned ==
  ev.op = "attrs" =>
    Cardinality({k \in DOMAIN ev.holders : ev.holders[k] = "data"})
      = Len(heap[ev.node].attr)

\* C18: a parse writes nothing of the context it shares with the other
\* parse, its dictionary and the reference counts of the strings included,
\* at any step of any interleaving.
C18_ContextReadOnly == [][arg'.ctx = arg.ctx]_vars

\* the writes are balanced: the dictionary counts, for each string, the
\* elements and leaves of the two parses that hold it
DecoderBalanced ==
  \A s \in DictStrings :
    arg.ctx.dict[s]
      = Cardinality({p \in Parses : stack[p].content = s})
        + Cardinality({p \in Parses : stack[p].value_str = s})

\* what the claim compares: the nodes from a first sibling on, each with its
\* schema node, attributes, value, leafref target and children, in sibling
\* order (the nodes of a tree are numbered in document order)
RECURSIVE Image(_, _)
Image(h, node) ==
  IF node = NULL THEN <<>>
  ELSE <<[schema |-> h[node].schema, attr |-> h[node].attr,
          value_str |-> h[node].value_str, value_type |-> h[node].value_type,
          leafref |-> h[node].leafref, value |-> h[node].value,
          children |-> Image(h, h[node].child)]>>
       \o Image(h, h[node].next)

Reparsed == ev.op = "lyd_parse_xml"

\* C13: parsing what the XML printer wrote for a tree gives a tree that is
\* structurally equal to it: the same schema nodes in the same sibling
\* order, the same attributes, the same value_str and value_type for every
\* leaf and the same leafref targets
C13_RoundTrip ==
  Reparsed =>
    /\ out[1].result # NULL
    /\ Image(out[1].heap, out[1].result) = Image(heap, top.result)

\* a leaf whose text is stored as it was read and starts with a prefix
PrefixedText(n) ==
  /\ lys_node[heap[n].schema].nodetype \in {"LEAF", "LEAFLIST"}
  /\ ~PathBearing(heap[n].value_type % (LY_DATA_TYPE_MASK + 1))
  /\ heap[n].value_str.pfx # ""

\* the round trip of the trees that have no such leaf
C13_RoundTripUnprefixed ==
  Reparsed /\ (\A n \in DOMAIN heap : ~PrefixedText(n)) =>
    /\ out[1].result # NULL
    /\ Image(out[1].heap, out[1].result) = Image(heap, top.result)

\* the document <cont xmlns="urn:m1"><lf xmlns:a="urn:m1" a:at="1">z:id1</lf>
\* </cont>, in which z is not declared
CaptureSource ==
  <<XE(1, "cont", "urn:m1", <<>>, <<>>, NoText,
       <<XE(2, "lf", "", <<[prefix |-> "a", ns |-> "urn:m1"]>>,
            <<XA("a", "at", "1", <<>>)>>, [pfx |-> "z", loc |-> "id1"], <<>>, <<>>,
            FALSE)>>,
       <<>>, FALSE)>>

\* the tree is the one the parse of that document gives: the text of lf is
\* a string, for the identityref member of the union has no z to translate;
\* in what is printed for it the attribute brings the declaration of z, the
\* prefix of m1, and the parse of that reads the text as an identity of m1
C13_Capture ==
  /\ Reparsed
  /\ lyd_parse_xml(CaptureSource).result # NULL
  /\ Image(lyd_parse_xml(CaptureSource).heap, 1) = Image(heap, top.result)
  /\ out[1].result # NULL
  /\ heap[2].value_type = LY_TYPE_STRING
  /\ heap[2].value_str = [pfx |-> "z", loc |-> "id1"]
  /\ out[1].heap[2].value_type = LY_TYPE_IDENT
  /\ out[1].heap[2].value_str = [pfx |-> "m1", loc |-> "id1"]

\* the schema node the rule for a child element finds among the top-level
\* data nodes of the module that has the namespace of the element
TopLevelAsChild(name, ns) ==
  IF ly_ctx_get_module_by_ns(ns) = "" THEN NoSchema
  ELSE xml_data_search_schemanode(name, ns, lys_module[ly_ctx_get_module_by_ns(ns)].data)

RootEntered == out # <<>> /\ arg.rpc = NoSchema

\* C21: a top-level element is resolved by the rule for a child element,
\* among the top-level data nodes of the module that has its namespace:
\* groupings are skipped and choices, cases and uses are descended through,
\* so that the schema node of a top-level data node is an instantiable node
\* and an element defined inside a top-level choice is found
C21_TopLevelRule ==
  RootEntered =>
    /\ out[1].schema = TopLevelAsChild(arg.xml.name, arg.xml.ns)
    /\ out[1].result # NULL => lys_node[out[1].schema].nodetype \in Instantiable

\* the part of it that holds: a node is made for an instantiable schema
\* node only, and that one is what the rule for a child element finds too
C21_Instantiable ==
  RootEntered /\ out[1].result # NULL =>
    /\ lys_node[out[1].schema].nodetype \in Instantiable
    /\ out[1].schema = TopLevelAsChild(arg.xml.name, arg.xml.ns)

\* the element tl, defined in a case of a top-level choice of m1, is not
\* found and the parse fails
C21_ChoiceNotFound ==
  /\ RootEntered /\ arg.xml = Elem("tl", "urn:m1", <<>>)
  /\ TopLevelAsChild("tl", "urn:m1") = "tl"
  /\ out[1].schema = NoSchema /\ out[1].ret = -1 /\ out[1].vecode = "LYE_INELEM"

\* the element tg is bound to the top-level grouping of that name, for which
\* no node can be made
C21_GroupingFound ==
  /\ RootEntered /\ arg.xml = Elem("tg", "urn:m1", <<>>)
  /\ out[1].schema = "tg" /\ out[1].ret = -1 /\ out[1].errno = "LY_EINT"

\* where lyd_parse_xml_ stands when the resolve pass is about to run and
\* when it has returned
ResolveReady ==
  top.pc = "resolve" =>
    /\ stack = <<>> /\ ~failed
    /\ top.result # NULL /\ heap[top.result].alive
    /\ top.unres = "allocated"

SinkFreed == (top.pc = "done") <=> (top.unres = "freed")

\* a step that runs the resolve pass is taken right after the loop over the
\* top-level elements has ended, and ends the function
ResolveStep ==
  ev'.op = "resolve" /\ ev' # ev => top.pc = "resolve" /\ ev.op = "end" /\ top'.pc = "done"

\* C22: within one parse the resolve pass runs at most once, only after
\* every top-level element has been parsed to its end, only if no element
\* has failed and a data node was produced, never while an element is being
\* parsed; and unres is freed on every path out of the function
C22_ResolveOnce ==
  /\ [](ResolveReady /\ SinkFreed)
  /\ [][ResolveStep]_vars
  /\ [][top.pc = "done" => top' = top]_vars

\* the resolve pass has run over one record, the tree is returned and unres
\* is freed
C22_Witness ==
  /\ ev.op = "resolve" /\ ev.r = 0
  /\ Len(unres) = 1
  /\ top.pc = "done" /\ top.result # NULL /\ top.unres = "freed"

\* an element has failed: the function returns with no resolve pass, unres
\* freed
C22_WitnessFailed ==
  /\ failed /\ ev.op # "resolve" /\ unres # <<>>
  /\ top.pc = "done" /\ top.result = NULL /\ top.unres = "freed"

\* the node has no value, no attribute and no child yet
Untouched(h, n) ==
  /\ h[n].alive
  /\ h[n].value_str = NoText /\ h[n].value = <<>>
  /\ h[n].attr = <<>> /\ h[n].child = NULL

ValueOps == {"value", "novalue", "anyxml"}

\* what a step of the parse of an element comes after
StepOrder ==
  /\ ev'.op = "enter" /\ ev'.result # NULL =>
       /\ ev'.result = Len(heap) + 1
       /\ stack' = Append(stack, stack'[Len(stack')])
       /\ stack'[Len(stack')].node = ev'.result /\ stack'[Len(stack')].pc = "context"
       /\ Untouched(heap', ev'.result)
       /\ heap'[ev'.result].parent = ev'.parent
       /\ ev'.parent # NULL => Cur.node = ev'.parent /\ Cur.pc = "children"
  /\ ev'.op = "context" =>
       /\ ev.op = "enter" /\ ev.result = ev'.node
       /\ Untouched(heap, ev'.node)
  /\ ev'.op \in ValueOps =>
       /\ ev.op = "context" /\ ev.node = ev'.node /\ ev.ok
       /\ heap[ev'.node].attr = <<>> /\ heap[ev'.node].child = NULL
  /\ ev'.op = "attrs" =>
       /\ ev.op \in ValueOps /\ ev.node = ev'.node
       /\ ev.op = "value" => ev.ret = EXIT_SUCCESS
       /\ heap[ev'.node].child = NULL
  /\ ev'.op = "children" =>
       /\ Cur.node = ev'.node /\ Cur.pc = "children" /\ ~failed
       /\ \/ ev.op = "attrs" /\ ev.node = ev'.node
          \/ ev.op = "content" /\ ev.res # "error"
          \/ ev.op = "enter" /\ ev.result = NULL /\ ev.ret = 0
  /\ ev'.op = "content" =>
       /\ Cur.node = ev'.node /\ ~failed
       /\ \/ ev.op = "children" /\ ev.node = ev'.node
          \/ ev.op = "attrs" /\ ev.node = ev'.node /\ ~HaveChildren(Cur.schema)
       /\ Len(stack') = Len(stack) - 1
       /\ \A i \in DOMAIN stack' : stack'[i].node # ev'.node

\* C23: for every element that gets a data node the steps come in this
\* order: the node is allocated and linked, then lyv_data_context is called
\* (before the value, the attributes and the children), then the value or
\* the anyxml payload is processed, then the attributes are copied, then
\* the child elements are parsed, and only then, if nothing has failed,
\* lyv_data_content is called, once
C23_StepOrder == [][StepOrder]_vars

\* lyv_data_content has accepted a container whose child was parsed and
\* whose attribute was copied
C23_Witness ==
  /\ ev.op = "content" /\ ev.res = "ok"
  /\ lys_node[heap[ev.node].schema].nodetype = "CONTAINER"
  /\ heap[ev.node].child # NULL /\ heap[heap[ev.node].child].alive
  /\ heap[heap[ev.node].child].attr # <<>>

\* the attributes the claim keeps: the standard ones that have a namespace
\* and whose namespace is the one of a module
KeptAttrs(attr) ==
  SelectSeq(attr, LAMBDA a : /\ a.type = "STD" /\ a.ns # ""
                             /\ ly_ctx_get_module_by_ns(a.ns) # "")

BoundAttrs(kept) ==
  [k \in DOMAIN kept |->
     lyd_attr(ly_ctx_get_module_by_ns(kept[k].ns), kept[k].name, kept[k].value)]

\* C24: after the attributes were copied, the attribute list of the node is,
\* in the order of the element, the standard attributes that have a
\* namespace and whose namespace belongs to a module, each bound to that
\* module; an attribute with no namespace or of no module gives no data
\* attribute and does not fail the parse
C24_AttributesCopied ==
  /\ out # <<>> /\ "attr" \in DOMAIN arg => out[1] = BoundAttrs(KeptAttrs(arg.attr))
  /\ ev.op = "attrs" =>
       /\ heap[ev.node].attr = BoundAttrs(KeptAttrs(ev.xml.attr))
       /\ ~failed /\ stack # <<>> /\ Cur.node = ev.node
       /\ Cur.pc \in {"children", "content"}

\* the attribute of m2 comes first, the one of m1 last, and between them
\* one of a namespace no module has
C24_Witness ==
  /\ out # <<>>
  /\ arg.attr = <<Attr("STD", "urn:m2", "bt", "2"), Attr("STD", "urn:x", "dt", "4"),
                  Attr("STD", "urn:m1", "at", "1")>>
  /\ out[1] = <<lyd_attr("m2", "bt", "2"), lyd_attr("m1", "at", "1")>>

\* C25: every record the resolve pass processes refers to a leaf that is
\* part of the tree being returned: when a node or a subtree is discarded
\* or freed after one of its leaves has put a record into unres, no record
\* of a freed leaf is left in unres when resolve_unres_data runs
C25_RecordsAlive ==
  top.pc = "resolve" => \A k \in DOMAIN unres : heap[unres[k].node].alive

\* what does hold: a record is put into unres for the leaf being decoded,
\* which is part of the tree at that time
C25_RecordedAlive ==
  ev.op = "value" /\ ev.ret = EXIT_SUCCESS =>
    \A k \in DOMAIN unres : unres[k].node = ev.node => ev.node \in Alive

\* the leafref leaf of a container was discarded by lyv_data_content, the
\* container is returned, and the resolve pass is about to read the record
\* of the leaf
C25_Dangling ==
  /\ top.pc = "resolve" /\ top.result = 1 /\ heap[1].alive /\ heap[1].child = NULL
  /\ unres = <<[node |-> 2, type |-> "UNRES_LEAFREF"]>>
  /\ ~heap[2].alive /\ heap[2].schema = "ref"

\* C26: in every tree a parse returns, under any options, a leaf whose
\* value_type masked with LY_DATA_TYPE_MASK is LY_TYPE_LEAFREF has a leafref
\* pointer that is not null and points to a leaf of the same tree, which the
\* printers rely on
C26_LeafrefSet ==
  Returned =>
    \A n \in Alive :
      IsLeaf(n) /\ heap[n].value_type % (LY_DATA_TYPE_MASK + 1) = LY_TYPE_LEAFREF =>
        /\ heap[n].leafref # NULL
        /\ heap[n].leafref \in Alive /\ IsLeaf(heap[n].leafref)

\* what does hold: the leaves the resolve pass has resolved point to a leaf
\* of the tree
C26_Resolved ==
  Returned /\ Resolving(options) /\ (\A k \in DOMAIN unres : heap[unres[k].node].alive) =>
    \A n \in Alive :
      IsLeaf(n) /\ heap[n].value_type % (LY_DATA_TYPE_MASK + 1) = LY_TYPE_LEAFREF =>
        /\ heap[n].leafref # NULL
        /\ heap[n].leafref \in Alive /\ IsLeaf(heap[n].leafref)

\* a filter is returned whose leafref leaf selects: it has no value, the
\* type of its schema node as value_type and no target
C26_Selection ==
  /\ Returned /\ options = {"FILTER"}
  /\ \E n \in Alive :
       /\ heap[n].schema = "ref" /\ heap[n].value_str = NoText
       /\ heap[n].value_type = LY_TYPE_LEAFREF /\ heap[n].leafref = NULL

\* the output statement of an rpc, looked for among its children
RECURSIVE OutputFrom(_)
OutputFrom(s) ==
  IF s = NoSchema THEN NoSchema
  ELSE IF lys_node[s].nodetype = "OUTPUT" THEN s
  ELSE OutputFrom(lys_node[s].next)

\* the nodes an element can be bound to under the output of the rpc
UnderOutput(r) ==
  IF OutputFrom(lys_node[r].child) = NoSchema THEN {}
  ELSE {Candidates(lys_node[OutputFrom(lys_node[r].child)].child)[i] :
          i \in DOMAIN Candidates(lys_node[OutputFrom(lys_node[r].child)].child)}

\* C27: when lyd_parse_output_xml decodes the output of an rpc, a top-level
\* element is bound to a schema node under the output statement of the rpc
\* only, never to a node of its input, even when an input node and an
\* output node have the same name and namespace
C27_OutputOnly ==
  ev.op = "enter" /\ rpc # NoSchema /\ ev.parent = NULL /\ ev.schema # NoSchema =>
    ev.schema \in UnderOutput(rpc)

\* the element v of the reply is bound to the leaf v of the input of op,
\* which comes before the output, and a node is made for it
C27_InputBound ==
  /\ ev.op = "enter" /\ rpc = "op" /\ ev.parent = NULL
  /\ ev.xml = Elem("v", "urn:m1", <<>>)
  /\ ev.schema = "in_v" /\ ev.result # NULL /\ heap[ev.result].schema = "in_v"
  /\ "out_v" \in UnderOutput("op")

\* the elements of a printed document
DocElems(doc) == UNION {SubElems(doc[i]) : i \in DOMAIN doc}

\* a leaf whose value the XML printer cannot print
Unprintable(h, n) ==
  /\ lys_node[h[n].schema].nodetype \in {"LEAF", "LEAFLIST"}
  /\ \/ (h[n].value_type % (LY_DATA_TYPE_MASK + 1))
          \notin PrintedAsStored \cup {LY_TYPE_IDENT, LY_TYPE_INST, LY_TYPE_LEAFREF,
                                       LY_TYPE_EMPTY}
     \/ /\ (h[n].value_type % (LY_DATA_TYPE_MASK + 1)) \in {LY_TYPE_IDENT, LY_TYPE_INST}
        /\ transform_json2xml(h[n].value_str).xml_expr = NoText

\* C28: for every data tree, the ones with a leaf whose value cannot be
\* printed included, every start tag the XML printer writes is terminated,
\* self-closed or closed by its end tag after the content, and a failure to
\* print a value is reported by the value xml_print_data returns
C28_TagsTerminated ==
  XmlPrinted =>
    /\ \A e \in DocElems(out[1].doc) : ~e.error
    /\ (\E n \in DOMAIN heap : Unprintable(heap, n)) => out[1].ret # EXIT_SUCCESS

\* what does hold: the start tags of a tree whose leaves can all be printed
\* are terminated
C28_PrintableTerminated ==
  XmlPrinted /\ (\A n \in DOMAIN heap : ~Unprintable(heap, n)) =>
    \A e \in DocElems(out[1].doc) : ~e.error

\* the leaf lf of a filter, which selects: "(!error!)" is written after the
\* name of the start tag, the tag is left open and EXIT_SUCCESS is returned
C28_OpenTag ==
  /\ XmlPrinted /\ out[1].ret = EXIT_SUCCESS
  /\ Len(heap) = 2 /\ heap[2].schema = "lf" /\ heap[2].value_type = LY_TYPE_UNION
  /\ out[1].doc[1].children[1].name = "lf" /\ out[1].doc[1].children[1].error

\* the element of the array for an instance, from the content of the
\* instance itself: the object of a list instance, the value of a leaf-list
\* instance
OwnElement(n) ==
  IF lys_node[heap[n].schema].nodetype = "LIST"
  THEN Punct("{") \o PrintAt(heap, n, n) \o json_print_nodes(heap, heap[n].child)
       \o Punct("}")
  ELSE json_print_leaf(heap, n, TRUE)

RECURSIVE OwnElements(_, _)
OwnElements(lists, k) ==
  IF k > Len(lists) THEN <<>>
  ELSE OwnElement(lists[k]) \o (IF k < Len(lists) THEN Punct(",") ELSE <<>>)
       \o OwnElements(lists, k + 1)

\* the member of a list or leaf-list: its name and the array of its
\* instances from n on, in sibling order
OwnArray(n) ==
  <<MemberName(heap, n, "")>> \o Punct("[")
  \o OwnElements(InstancesFrom(heap, n, heap[n].schema), 1) \o Punct("]")

ListFirsts ==
  {n \in DOMAIN heap :
     /\ heap[n].parent = 1 /\ IsListInstance(heap, n)
     /\ \A m \in DOMAIN heap :
          heap[m].parent = 1 /\ heap[m].schema = heap[n].schema => m >= n}

\* C29: for every list or leaf-list schema node with k >= 1 instances among
\* the siblings, the JSON array printed for it has exactly k elements, one
\* for each instance in sibling order, each printed from the content of
\* that instance; also when the first instance has no child or no value
\* and later ones have
C29_ArrayPerInstance ==
  JsonPrinted => \A n \in ListFirsts : Contains(out[1].tokens, OwnArray(n))

\* what does hold: the array of a list or leaf-list whose first instance
\* has a value or a child, and none of whose instances has an attribute
C29_PlainArrays ==
  JsonPrinted =>
    \A n \in ListFirsts :
      /\ ~ChildIsNull(heap, n)
      /\ \A k \in DOMAIN InstancesFrom(heap, n, heap[n].schema) :
           heap[InstancesFrom(heap, n, heap[n].schema)[k]].attr = <<>>
      => Contains(out[1].tokens, OwnArray(n))

\* the first instance of the leaf-list has no value and the second has one:
\* the member is null and the second instance is not printed
C29_NullMember ==
  /\ JsonPrinted
  /\ Len(heap) = 3 /\ heap[2].schema = "ll" /\ heap[3].schema = "ll"
  /\ heap[2].value_str = NoText /\ heap[3].value_str = [pfx |-> "", loc |-> "a"]
  /\ Contains(out[1].tokens, <<Tok("name", "ll")>> \o Punct("null"))
  /\ ~Contains(out[1].tokens, <<Tok("string", "a")>>)

\* the top-level statements of the module and of its submodules: the list
\* and the place
TopLevel ==
  {<<0, k>> : k \in DOMAIN arg.module.data}
  \cup UNION {{<<i, k>> : k \in DOMAIN arg.module.inc[i].data} : i \in DOMAIN arg.module.inc}

DataOf(where) == IF where = 0 THEN arg.module.data ELSE arg.module.inc[where].data

\* the enabled statements of a type at the top level
EnabledTop(nodetype) ==
  {w \in TopLevel : /\ DataOf(w[1])[w[2]].nodetype = nodetype
                    /\ ~DataOf(w[1])[w[2]].disabled}

\* how many times a line is printed
Times(lines, l) == Cardinality({j \in DOMAIN lines : lines[j] = l})

TreePrinted == out # <<>> /\ "module" \in DOMAIN arg

PrintedOnce(nodetype, kind, header) ==
  /\ \A w \in EnabledTop(nodetype) : Times(out[1], Line(kind, w[1], w[2])) = 1
  /\ EnabledTop(nodetype) # {} => Times(out[1], Line(header, 0, 0)) >= 1

\* C30: tree_print_model prints every enabled rpc and every enabled
\* notification at the top level of the module and of each included
\* submodule exactly once, and prints the header of the section rpcs: or
\* notifications: whenever there is at least one such statement in the
\* module or in an included submodule
C30_EveryOperationOnce ==
  TreePrinted => /\ PrintedOnce("RPC", "rpc", "rpcs:")
                 /\ PrintedOnce("NOTIF", "notif", "notifications:")

\* what does hold: no line is printed twice, and when no submodule has an
\* rpc or a notification every enabled one of the module is printed once
\* under its header
C30_ModuleOnly ==
  TreePrinted =>
    /\ \A j, l \in DOMAIN out[1] : out[1][j] = out[1][l] => j = l
    /\ (\A i \in DOMAIN arg.module.inc : \A k \in DOMAIN arg.module.inc[i].data :
          arg.module.inc[i].data[k].nodetype = "CONTAINER")
       => /\ PrintedOnce("RPC", "rpc", "rpcs:")
          /\ PrintedOnce("NOTIF", "notif", "notifications:")

\* the module and its submodule have an enabled rpc each: the one of the
\* submodule takes the count of the one of the module, which is not printed
C30_ModuleRpcMissing ==
  /\ TreePrinted
  /\ <<0, 1>> \in EnabledTop("RPC") /\ <<1, 1>> \in EnabledTop("RPC")
  /\ Times(out[1], Line("rpc", 1, 1)) = 1
  /\ Times(out[1], Line("rpc", 0, 1)) = 0

\* only the submodule has an rpc: neither the header nor the rpc is printed
C30_NoSection ==
  /\ TreePrinted
  /\ arg.module.data = <<>> /\ <<1, 1>> \in EnabledTop("RPC")
  /\ out[1] = <<Line("module:", 0, 0)>>

====
